---- MODULE Spec2Model ----
(***************************************************************************)
(* A model of the sbs2 storage contract: the content-addressed blob store  *)
(* of Library.create_blob and the entry store of the three Library         *)
(* backends (FileSystemLibrary, SqliteLibrary, AwsLibrary) with their      *)
(* get_entries pagination.                                                 *)
(*                                                                         *)
(* Several specifications share the module.  BlobSpec runs the blob        *)
(* operations of a FileSystemLibrary and ConcurrentBlobSpec runs           *)
(* create_blob calls of two threads, one file operation at a time.  Spec   *)
(* runs the entry operations of one library whose backend is chosen in     *)
(* the initial state, and CreateEntrySpec runs create_entry and the        *)
(* look-ups on such a library.  IngestSpec runs the intake webapp's        *)
(* _Ingestor: requests and their download workers interleaved on one       *)
(* thread pool over a FileSystemLibrary, and IngestLiveSpec is the same    *)
(* intake with pool threads that go on.  DownloadSpec follows one          *)
(* download with the byte counters of its _DownloadStatus.                 *)
(***************************************************************************)
EXTENDS Integers, Sequences, FiniteSets, TLC

VARIABLES
    blobs,        \* Blobs folder: blob_id -> bytes of the file of that name
    blob_writes,  \* probe: blob_id -> number of _write_blob_content calls for it
    blast,        \* the last blob operation: its arguments and what it returned
    backend,      \* which Library subclass the entry store belongs to
    glob_order,   \* the order Path.glob lists the files of the Entries folder in
    entries,      \* entry store: file stem / db key / sort key -> stored data
    last,         \* the last entry operation: its arguments and what it returned
    thread_pool_size,  \* ThreadPool(processes=thread_pool_size) of the intake
    entry_ingestions,  \* _Ingestor.entry_ingestions: the list of _EntryIngestion
    requests,     \* the put_entry_with_url_content calls dispatched to the pool
    posts,        \* the POSTs to the intake endpoint and what each was answered
    callers,      \* the create_blob calls that run concurrently on the Blobs folder
    dl,           \* one download: the response, what is read of it, its content
    dl_status     \* the _DownloadStatus of that download, with its byte counters

blob_vars == <<blobs, blob_writes, blast>>
entry_vars == <<backend, glob_order, entries, last>>
ingest_vars == <<thread_pool_size, entry_ingestions, requests, posts>>
call_vars == <<callers>>
download_vars == <<dl, dl_status>>
vars == <<blobs, blob_writes, blast, backend, glob_order, entries, last,
          thread_pool_size, entry_ingestions, requests, posts, callers, dl,
          dl_status>>

None == "None"

\* The value of dl and dl_status where no download is looked at.
NoDownload == [pc |-> "none"]

Min(a, b) == IF a <= b THEN a ELSE b

----------------------------------------------------------------------------
(* Contents and hashing                                                    *)

\* Longest content body of the model, in bytes.
MaxLen == 2
\* Most blobs the Blobs folder of the model holds.
MaxBlobs == 1
\* _default_chunk_size, in the model's byte unit: a body of MaxLen bytes
\* takes more than one read.
default_chunk_size == 1

Bytes == {0, 1}

Bodies == UNION {[1..n -> Bytes] : n \in 0..MaxLen}

MimeTypes == {"image/jpeg", "binary/octet-stream", "application/x-sbs2"}

\* mimetypes.guess_extension for the types of the model; None when the
\* table knows no extension for the type.
guess_extension(content_type) ==
    CASE content_type = "image/jpeg" -> ".jpe"
      [] content_type = "image/png" -> ".png"
      [] OTHER -> None

\* hashlib.sha1: the hasher is a number that update() folds each byte
\* into.  Distinct byte strings get distinct digests (a collision of
\* SHA-1 is outside the model).
sha1 == 0

RECURSIVE hasher_update(_, _)
hasher_update(h, buf) ==
    IF buf = <<>> THEN h
    ELSE hasher_update(3 * h + Head(buf) + 1, Tail(buf))

hexdigest(h) == h

\* _copy with one read only: what a loop that ends after its first
\* buffer hands on.
_copy_first_read_only(body, n) ==
    IF body = <<>> THEN <<>> ELSE <<SubSeq(body, 1, Min(n, Len(body)))>>

\* _copy: the buffers the reader yields, chunk_size bytes at a time, until
\* a read returns nothing; each one is handed to the writer and then
\* reported to the callback.
RECURSIVE _copy(_, _)
_copy(body, n) ==
    IF body = <<>> THEN <<>>
    ELSE LET k == Min(n, Len(body))
         IN  <<SubSeq(body, 1, k)>> \o _copy(SubSeq(body, k + 1, Len(body)), n)

\* A writer that is hasher.update, applied to every buffer of a copy.
RECURSIVE update_all(_, _)
update_all(h, bufs) ==
    IF bufs = <<>> THEN h
    ELSE update_all(hasher_update(h, Head(bufs)), Tail(bufs))

\* A writer that is file.write, applied to every buffer of a copy.
RECURSIVE write_all(_, _)
write_all(file, bufs) ==
    IF bufs = <<>> THEN file
    ELSE write_all(file \o Head(bufs), Tail(bufs))

\* A Content that is not prehashed (FileContent, an inline content).
PlainContent(content_type, body) ==
    [kind |-> "plain", type |-> content_type, body |-> body, sha1_hash |-> None]

\* DownloadResponse.read_content: the response body is copied into a
\* buffer and into a hasher, and both go into a DownloadedContent.
read_content(content_type, response_body) ==
    LET bufs == _copy(response_body, default_chunk_size)
    IN  [kind |-> "prehashed",
         type |-> content_type,
         body |-> write_all(<<>>, bufs),
         sha1_hash |-> hexdigest(update_all(sha1, bufs))]

PlainContents == {PlainContent(t, b) : t \in MimeTypes, b \in Bodies}
DownloadedContents == {read_content(t, b) : t \in MimeTypes, b \in Bodies}
Contents == PlainContents \cup DownloadedContents

----------------------------------------------------------------------------
(* Blob operations of Library and FileSystemLibrary                        *)

\* Library.create_blob, lines 159-163: the extension of the blob id.
blob_ext(content_type) ==
    LET ext == guess_extension(content_type)
    IN  IF ext = None THEN ""
        ELSE IF ext = ".jpe" THEN ".jpg"
        ELSE ext

\* Library.create_blob, lines 151-165: the blob id of a content.  A blob
\* id is the pair (hex digest, extension), for the string digest + ext.
compute_blob_id(content) ==
    LET sha1_hash ==
            IF content.kind = "prehashed" THEN content.sha1_hash
            ELSE hexdigest(update_all(sha1, _copy(content.body, default_chunk_size)))
    IN  <<sha1_hash, blob_ext(content.type)>>

\* FileSystemLibrary.get_blob / blob_exists on a Blobs folder.
blob_exists(store, blob_id) == blob_id \in DOMAIN store

get_blob(store, blob_id) ==
    IF blob_id \in DOMAIN store THEN blob_id ELSE None

\* FileSystemLibrary._write_blob_content: the file is opened 'wb' and the
\* body copied into it; write_callback runs once per buffer.
_write_blob_content(store, blob_id, content) ==
    LET bufs == _copy(content.body, default_chunk_size)
    IN  [store |-> (blob_id :> write_all(<<>>, bufs)) @@ store,
         callbacks |-> Len(bufs)]

\* create_blob without the look-up of an existing blob: every call writes.
create_blob_always_writes(store, content) ==
    LET blob_id == compute_blob_id(content)
        w == _write_blob_content(store, blob_id, content)
    IN  [blob_id |-> blob_id, store |-> w.store, wrote |-> TRUE,
         callbacks |-> w.callbacks]

\* Library.create_blob: the blob returned, the Blobs folder afterwards,
\* whether _write_blob_content ran and how often write_callback did.
create_blob(store, content) ==
    LET blob_id == compute_blob_id(content)
        existing_blob == get_blob(store, blob_id)
    IN  IF existing_blob # None
        THEN [blob_id |-> existing_blob, store |-> store, wrote |-> FALSE,
              callbacks |-> 0]
        ELSE LET w == _write_blob_content(store, blob_id, content)
             IN  [blob_id |-> blob_id, store |-> w.store, wrote |-> TRUE,
                  callbacks |-> w.callbacks]

CountWrite(counts, blob_id) ==
    IF blob_id \in DOMAIN counts
    THEN [counts EXCEPT ![blob_id] = @ + 1]
    ELSE (blob_id :> 1) @@ counts

\* One create_blob(content, write_callback) call on the library.
DoCreateBlob(content) ==
    LET r == create_blob(blobs, content)
    IN  /\ Cardinality(DOMAIN r.store) <= MaxBlobs
        /\ blobs' = r.store
        /\ blob_writes' = IF r.wrote THEN CountWrite(blob_writes, r.blob_id)
                          ELSE blob_writes
        /\ blast' = [op |-> "create_blob", content |-> content,
                     blob_id |-> r.blob_id,
                     existed |-> blob_exists(blobs, compute_blob_id(content)),
                     wrote |-> r.wrote, callbacks |-> r.callbacks]
        /\ UNCHANGED entry_vars
        /\ UNCHANGED ingest_vars
        /\ UNCHANGED <<call_vars, download_vars>>

\* create_blob of a content the caller holds (a FileContent, ...).
CreateBlob == \E content \in PlainContents : DoCreateBlob(content)

\* create_blob of what read_content made of a download.
CreateBlobFromDownload == \E content \in DownloadedContents : DoCreateBlob(content)

BlobIds == {compute_blob_id(content) : content \in Contents}

\* get_blob(blob_id) / blob_exists(blob_id) for the id of some content.
GetBlob ==
    \E blob_id \in BlobIds :
        /\ blast' = [op |-> "get_blob", blob_id |-> blob_id,
                     result |-> get_blob(blobs, blob_id),
                     exists |-> blob_exists(blobs, blob_id)]
        /\ UNCHANGED <<blobs, blob_writes>>
        /\ UNCHANGED entry_vars
        /\ UNCHANGED ingest_vars
        /\ UNCHANGED <<call_vars, download_vars>>

\* The blob operations run on a FileSystemLibrary that holds no entry.
BlobSpecInit ==
    /\ blobs = <<>>
    /\ blob_writes = <<>>
    /\ blast = [op |-> "init"]
    /\ backend = "filesystem"
    /\ glob_order = "asc"
    /\ entries = <<>>
    /\ last = [op |-> "idle"]
    /\ thread_pool_size = 1
    /\ entry_ingestions = <<>>
    /\ requests = <<>>
    /\ posts = <<>>
    /\ callers = <<>>
    /\ dl = NoDownload
    /\ dl_status = NoDownload

BlobNext == CreateBlob \/ CreateBlobFromDownload \/ GetBlob

BlobSpec == BlobSpecInit /\ [][BlobNext]_vars

----------------------------------------------------------------------------
(* create_blob called by several threads on one FileSystemLibrary          *)

\* Threads that call create_blob on the library.
MaxCallers == 2

\* The blob ids that a call is at work on.
InFlight(cs) == {cs[c].blob_id : c \in {k \in DOMAIN cs : cs[k].pc # "returned"}}

\* Library.create_blob, lines 151-165: a thread enters create_blob and
\* computes the blob id of its content.
create_blob_call ==
    \E content \in Contents :
        /\ Len(callers) < MaxCallers
        /\ Cardinality(DOMAIN blobs \cup InFlight(callers)
                           \cup {compute_blob_id(content)}) <= MaxBlobs
        /\ callers' = Append(callers,
              [pc |-> "get_blob", content |-> content,
               blob_id |-> compute_blob_id(content),
               bufs |-> <<>>, offset |-> 0, wrote |-> FALSE, result |-> None])
        /\ UNCHANGED <<blob_vars, entry_vars, ingest_vars, download_vars>>

\* Library.create_blob, lines 167-169: the look-up of an existing blob; a
\* file of that name makes the call return it.
CallerGetBlob ==
    \E c \in DOMAIN callers :
        /\ callers[c].pc = "get_blob"
        /\ LET existing_blob == get_blob(blobs, callers[c].blob_id)
           IN  callers' = [callers EXCEPT ![c] =
                  IF existing_blob # None
                  THEN [@ EXCEPT !.pc = "returned", !.result = existing_blob]
                  ELSE [@ EXCEPT !.pc = "open"]]
        /\ UNCHANGED <<blob_vars, entry_vars, ingest_vars, download_vars>>

\* FileSystemLibrary._write_blob_content: blob_file_path.open('wb') makes
\* the file or truncates it, with the position of this handle at 0.
CallerOpen ==
    \E c \in DOMAIN callers :
        /\ callers[c].pc = "open"
        /\ blobs' = (callers[c].blob_id :> <<>>) @@ blobs
        /\ blob_writes' = CountWrite(blob_writes, callers[c].blob_id)
        /\ callers' = [callers EXCEPT ![c] =
              [@ EXCEPT !.pc = "write", !.wrote = TRUE, !.offset = 0,
                        !.bufs = _copy(callers[c].content.body, default_chunk_size)]]
        /\ UNCHANGED <<blast, entry_vars, ingest_vars, download_vars>>

\* dest.write(buf) on a handle opened without truncation, at the end of
\* the file.
file_write_append(file, offset, buf) == file \o buf

\* dest.write(buf) at the position of the handle: the bytes replace what
\* the file holds there, and a gap before them reads as zeros.
file_write(file, offset, buf) ==
    [k \in 1..(IF Len(file) > offset + Len(buf) THEN Len(file) ELSE offset + Len(buf)) |->
        IF k > offset /\ k <= offset + Len(buf) THEN buf[k - offset]
        ELSE IF k <= Len(file) THEN file[k]
        ELSE 0]

\* _copy_fileobj, one round of _copy: the next buffer of the body is
\* written to the file.
CallerWrite ==
    \E c \in DOMAIN callers :
        /\ callers[c].pc = "write"
        /\ callers[c].bufs # <<>>
        /\ blobs' = [blobs EXCEPT ![callers[c].blob_id] =
                        file_write(@, callers[c].offset, Head(callers[c].bufs))]
        /\ callers' = [callers EXCEPT ![c] =
              [@ EXCEPT !.offset = @ + Len(Head(callers[c].bufs)),
                        !.bufs = Tail(@)]]
        /\ UNCHANGED <<blob_writes, blast, entry_vars, ingest_vars, download_vars>>

\* The copy is over: the file is closed and the Blob returned.
CallerClose ==
    \E c \in DOMAIN callers :
        /\ callers[c].pc = "write"
        /\ callers[c].bufs = <<>>
        /\ callers' = [callers EXCEPT ![c] =
              [@ EXCEPT !.pc = "returned", !.result = callers[c].blob_id]]
        /\ UNCHANGED <<blob_vars, entry_vars, ingest_vars, download_vars>>

ConcurrentBlobNext ==
    \/ create_blob_call
    \/ CallerGetBlob
    \/ CallerOpen
    \/ CallerWrite
    \/ CallerClose

ConcurrentBlobSpec == BlobSpecInit /\ [][ConcurrentBlobNext]_vars

----------------------------------------------------------------------------
(* Entry ids, their sort keys and their file names                         *)

\* An entry id is the tuple of its characters; <<>> is the empty string,
\* which the code cannot tell from None ("if after:").
Ord(c) ==
    CASE c = "." -> 46
      [] c = "0" -> 48
      [] c = "1" -> 49
      [] c = "2" -> 50
      [] c = "b" -> 98
      [] c = "e" -> 101

IsDigit(c) == c \in {"0", "1", "2"}

\* The ids of the test suite's pagination scenario (e1, e2, e10), an id
\* that differs from e1 by a leading zero, an id that starts with a digit
\* and an id with a dot in it.
EntryIds ==
    { <<"e", "1">>, <<"e", "2">>, <<"e", "1", "0">>, <<"e", "0", "1">>,
      <<"1">>, <<"e", "1", ".", "b">> }

\* How two results of a comparison are named: "lt", "eq", "gt", and "err"
\* where Python raises TypeError.
IntCmp(a, b) == IF a < b THEN "lt" ELSE IF a > b THEN "gt" ELSE "eq"

\* str < str: by code point, a proper prefix first.  Also the order of
\* SQLite's ORDER BY on a TEXT key and of a DynamoDB string sort key.
RECURSIVE StrCmp(_, _)
StrCmp(s, t) ==
    IF s = <<>> /\ t = <<>> THEN "eq"
    ELSE IF s = <<>> THEN "lt"
    ELSE IF t = <<>> THEN "gt"
    ELSE IF Head(s) = Head(t) THEN StrCmp(Tail(s), Tail(t))
    ELSE IntCmp(Ord(Head(s)), Ord(Head(t)))

\* int(p) for a string of digits.
RECURSIVE IntOf(_, _)
IntOf(acc, p) ==
    IF p = <<>> THEN acc
    ELSE IntOf(10 * acc + (Ord(Head(p)) - 48), Tail(p))

\* The length of the longest prefix of s that is all digits (d) or has none.
RECURSIVE RunLen(_, _)
RunLen(s, d) ==
    IF s = <<>> \/ IsDigit(Head(s)) # d THEN 0 ELSE 1 + RunLen(Tail(s), d)

\* digit_value_aware_sort_key: re.split(r'(\d+)', value) without its empty
\* pieces, each run of digits as an int.  A part is tagged with its type.
RECURSIVE digit_value_aware_sort_key(_)
digit_value_aware_sort_key(value) ==
    IF value = <<>> THEN <<>>
    ELSE LET d == IsDigit(Head(value))
             k == RunLen(value, d)
             p == SubSeq(value, 1, k)
             part == IF d THEN [t |-> "int", s |-> <<>>, n |-> IntOf(0, p)]
                     ELSE [t |-> "str", s |-> p, n |-> 0]
         IN  <<part>> \o digit_value_aware_sort_key(SubSeq(value, k + 1, Len(value)))

\* Python's < on two key parts: int with int, str with str, TypeError for
\* one of each.
PartCmp(a, b) ==
    IF a.t = "int" /\ b.t = "int" THEN IntCmp(a.n, b.n)
    ELSE IF a.t = "str" /\ b.t = "str" THEN StrCmp(a.s, b.s)
    ELSE "err"

\* Python's < on two lists: the first differing pair decides, a proper
\* prefix is smaller.
RECURSIVE KeyCmp(_, _)
KeyCmp(ka, kb) ==
    IF ka = <<>> /\ kb = <<>> THEN "eq"
    ELSE IF ka = <<>> THEN "lt"
    ELSE IF kb = <<>> THEN "gt"
    ELSE LET c == PartCmp(Head(ka), Head(kb))
         IN  IF c = "eq" THEN KeyCmp(Tail(ka), Tail(kb)) ELSE c

\* FileSystemLibraryConfig.entry_id_sort_key, at its default.
entry_id_sort_key(value) == digit_value_aware_sort_key(value)

\* PurePath.suffix of a file name: from the last dot on, unless that dot
\* is the first or the last character.
RECURSIVE LastDot(_)
LastDot(name) ==
    IF name = <<>> THEN 0
    ELSE IF name[Len(name)] = "." THEN Len(name)
    ELSE LastDot(SubSeq(name, 1, Len(name) - 1))

path_stem(name) ==
    LET i == LastDot(name)
    IN  IF 1 < i /\ i < Len(name) THEN SubSeq(name, 1, i - 1) ELSE name

\* FileSystemLibrary._get_entry_file_path: joinpath(entry_id).with_suffix(
\* '.yaml') replaces a suffix the id has.  The file is named by its stem
\* (Path.stem of the .yaml file), which is what glob('*.yaml') sorts by.
_get_entry_file_path(entry_id) == path_stem(entry_id)

----------------------------------------------------------------------------
(* Entries and the three entry stores                                      *)

\* Most entries the library of the model holds.
MaxEntries == 3
\* Largest limit passed to get_entries.
MaxLimit == 3
\* Most items one DynamoDB Query response of the model carries: the
\* service ends a response at its size cap and hands back a
\* LastEvaluatedKey, whatever Limit was asked for.
QueryPageItems == 2

RECURSIVE SetToSeq(_)
SetToSeq(S) ==
    IF S = {} THEN <<>>
    ELSE LET x == CHOOSE y \in S : TRUE IN <<x>> \o SetToSeq(S \ {x})

SeqToSet(q) == {q[i] : i \in 1..Len(q)}

Reverse(q) == [i \in 1..Len(q) |-> q[Len(q) + 1 - i]]

Take(q, n) == SubSeq(q, 1, Min(n, Len(q)))

\* sorted() of a set of tags.  A tag is a number that stands for a string,
\* in the order of the strings.
sorted(tags) == SortSeq(SetToSeq(tags), LAMBDA a, b : a < b)

\* EntryMetadata.as_dict that leaves the tags out.
EntryMetadata_as_dict_no_tags(metadata) ==
    [attributes |-> metadata.attributes, tags |-> <<>>]

\* EntryMetadata.as_dict: the tags become a sorted list.  An attribute
\* mapping is the set of its (key, value) pairs.
EntryMetadata_as_dict(metadata) ==
    [attributes |-> metadata.attributes, tags |-> sorted(metadata.tags)]

\* EntryMetadata.from_dict: the tag list becomes a set again.
EntryMetadata_from_dict(d) ==
    [attributes |-> d.attributes, tags |-> SeqToSet(d.tags)]

\* Entry.as_dict: a blob is stored as its blob id.
Entry_as_dict(entry) ==
    [entry_id |-> entry.entry_id,
     metadata |-> EntryMetadata_as_dict(entry.metadata),
     blob_sequence |-> entry.blob_sequence]

Entry(entry_id, metadata, blob_sequence) ==
    [entry_id |-> entry_id, metadata |-> metadata, blob_sequence |-> blob_sequence]

\* What an entry of the model holds besides its id.
Payloads ==
    { [metadata |-> [attributes |-> {<<"color", "rb">>}, tags |-> {1, 2}],
       blob_sequence |-> <<"b1", "b2">>],
      [metadata |-> [attributes |-> {}, tags |-> {2}],
       blob_sequence |-> <<"b2">>] }

EntryValues == {Entry(id, p.metadata, p.blob_sequence) : id \in EntryIds, p \in Payloads}

\* FileSystemLibrary._load_entry: the Entry of a parsed entry file.
_load_entry(entry_data) ==
    Entry(entry_data.entry_id,
          EntryMetadata_from_dict(entry_data.metadata),
          entry_data.blob_sequence)

\* SqliteLibrary._entry_from_dict: the entry id is the key of the row.
Sqlite_entry_from_dict(entry_id, entry_data) ==
    Entry(entry_id,
          EntryMetadata_from_dict(entry_data.metadata),
          entry_data.blob_sequence)

\* AwsLibrary._entry_from_dict: the Entry of a table item.
Aws_entry_from_dict(item) ==
    Entry(item.entry_id,
          EntryMetadata_from_dict(item.metadata),
          item.blob_sequence)

\* An optional Entry is a sequence: <<>> for None, <<entry>> otherwise.

\* FileSystemLibrary.get_entry
FileSystemLibrary_get_entry(es, entry_id) ==
    LET entry_file_path == _get_entry_file_path(entry_id)
    IN  IF entry_file_path \notin DOMAIN es THEN <<>>
        ELSE <<_load_entry(es[entry_file_path])>>

\* SqliteLibrary.get_entry
SqliteLibrary_get_entry(es, entry_id) ==
    IF entry_id \notin DOMAIN es THEN <<>>
    ELSE <<Sqlite_entry_from_dict(entry_id, es[entry_id])>>

\* AwsLibrary.get_entry: get_item by the key (library_id, entry_id).
AwsLibrary_get_entry(es, entry_id) ==
    IF entry_id \notin DOMAIN es THEN <<>>
    ELSE <<Aws_entry_from_dict(es[entry_id])>>

get_entry(b, es, entry_id) ==
    CASE b = "filesystem" -> FileSystemLibrary_get_entry(es, entry_id)
      [] b = "sqlite" -> SqliteLibrary_get_entry(es, entry_id)
      [] b = "aws" -> AwsLibrary_get_entry(es, entry_id)

\* An existence check that looks for the whole id among the file names.
entry_exists_whole_id(b, es, entry_id) == entry_id \in DOMAIN es

\* Library.entry_exists, and FileSystemLibrary's override of it.
entry_exists(b, es, entry_id) ==
    IF b = "filesystem" THEN _get_entry_file_path(entry_id) \in DOMAIN es
    ELSE get_entry(b, es, entry_id) # <<>>

\* put_entry that keeps what an entry file already holds: the tags and
\* attributes of the old entry are merged into the new one.
FileSystemLibrary_put_entry_merging(es, entry) ==
    LET path == _get_entry_file_path(entry.entry_id)
        d == Entry_as_dict(entry)
    IN  IF path \in DOMAIN es
        THEN (path :> [d EXCEPT !.metadata =
                 EntryMetadata_as_dict(
                   [attributes |-> d.metadata.attributes \cup es[path].metadata.attributes,
                    tags |-> SeqToSet(d.metadata.tags) \cup SeqToSet(es[path].metadata.tags)])])
             @@ es
        ELSE (path :> d) @@ es

\* FileSystemLibrary.put_entry: the entry file is opened 'w' and the dict
\* dumped into it.
FileSystemLibrary_put_entry(es, entry) ==
    (_get_entry_file_path(entry.entry_id) :> Entry_as_dict(entry)) @@ es

\* SqliteLibrary.put_entry: the dict without its entry_id, under the key.
SqliteLibrary_put_entry(es, entry) ==
    LET entry_dict == Entry_as_dict(entry)
    IN  (entry.entry_id :> [metadata |-> entry_dict.metadata,
                            blob_sequence |-> entry_dict.blob_sequence]) @@ es

\* AwsLibrary.put_entry: put_item of the dict and the library_id.
AwsLibrary_put_entry(es, entry) ==
    LET item == Entry_as_dict(entry)
    IN  (entry.entry_id :> [entry_id |-> item.entry_id,
                            metadata |-> item.metadata,
                            blob_sequence |-> item.blob_sequence,
                            library_id |-> "lib"]) @@ es

put_entry(b, es, entry) ==
    CASE b = "filesystem" -> FileSystemLibrary_put_entry(es, entry)
      [] b = "sqlite" -> SqliteLibrary_put_entry(es, entry)
      [] b = "aws" -> AwsLibrary_put_entry(es, entry)

Remove(es, key) == [k \in DOMAIN es \ {key} |-> es[k]]

\* FileSystemLibrary.delete_entry: Path.unlink() of the entry file, which
\* raises when there is no such file.
FileSystemLibrary_delete_entry(es, entry_id) ==
    LET path == _get_entry_file_path(entry_id)
    IN  IF path \in DOMAIN es
        THEN [error |-> None, store |-> Remove(es, path)]
        ELSE [error |-> "FileNotFoundError", store |-> es]

\* SqliteLibrary.delete_entry: del on the SqliteDict, which raises for a
\* key it does not hold.
SqliteLibrary_delete_entry(es, entry_id) ==
    IF entry_id \in DOMAIN es
    THEN [error |-> None, store |-> Remove(es, entry_id)]
    ELSE [error |-> "KeyError", store |-> es]

\* AwsLibrary.delete_entry: delete_item, which succeeds for a missing key.
AwsLibrary_delete_entry(es, entry_id) ==
    [error |-> None, store |-> Remove(es, entry_id)]

delete_entry(b, es, entry_id) ==
    CASE b = "filesystem" -> FileSystemLibrary_delete_entry(es, entry_id)
      [] b = "sqlite" -> SqliteLibrary_delete_entry(es, entry_id)
      [] b = "aws" -> AwsLibrary_delete_entry(es, entry_id)

----------------------------------------------------------------------------
(* get_entries                                                             *)

\* The result of a get_entries call, read to its end: the exception it
\* raised (None when it raised none) and the entries it yielded.
Listing(error, listed) == [error |-> error, entries |-> listed]

\* Whether the file of stem a comes before the file of stem b in the
\* order glob yields them.
GlobBefore(order, a, b) ==
    IF order = "asc" THEN StrCmp(a, b) = "lt" ELSE StrCmp(a, b) = "gt"

\* FileSystemLibrary._get_sorted_entry_file_paths: a SortedKeyList of the
\* entry files by entry_id_sort_key(stem); the sort is stable, so files
\* of equal keys stay in glob order.  Comparing an int part with a str
\* part raises TypeError: with the ids of the model such a pair among
\* the stems is met by every sort.
_get_sorted_entry_file_paths(es, order) ==
    LET stems == DOMAIN es
        before(a, b) ==
            LET c == KeyCmp(entry_id_sort_key(a), entry_id_sort_key(b))
            IN  c = "lt" \/ (c = "eq" /\ GlobBefore(order, a, b))
    IN  IF \E a, b \in stems :
               KeyCmp(entry_id_sort_key(a), entry_id_sort_key(b)) = "err"
        THEN [error |-> "TypeError", paths |-> <<>>]
        ELSE [error |-> None, paths |-> SortSeq(SetToSeq(stems), before)]

\* FileSystemLibrary.get_entries
FileSystemLibrary_get_entries(es, order, limit_given, limit, after, reverse) ==
    LET all_entry_paths == _get_sorted_entry_file_paths(es, order)
        has_after == after # <<>>
        after_key == entry_id_sort_key(after)
        cmp(path) == KeyCmp(entry_id_sort_key(path), after_key)
        above(path) == cmp(path) = "gt"
        below(path) == cmp(path) = "lt"
        entry_file_paths ==
            IF ~has_after
            THEN IF reverse THEN Reverse(all_entry_paths.paths)
                 ELSE all_entry_paths.paths
            ELSE IF reverse
            THEN Reverse(SelectSeq(all_entry_paths.paths, below))
            ELSE SelectSeq(all_entry_paths.paths, above)
        load(paths) == [i \in 1..Len(paths) |-> _load_entry(es[paths[i]])]
    IN  IF all_entry_paths.error # None
        THEN Listing(all_entry_paths.error, <<>>)
        ELSE IF has_after /\ \E path \in DOMAIN es : cmp(path) = "err"
        THEN Listing("TypeError", <<>>)
        ELSE IF limit_given /\ limit # 0
        THEN IF limit < 0 THEN Listing("ValueError", <<>>)
             ELSE Listing(None, load(Take(entry_file_paths, limit)))
        ELSE Listing(None, load(entry_file_paths))

\* The keys of a store in the order of the strings.
LexicalKeys(es) ==
    SortSeq(SetToSeq(DOMAIN es), LAMBDA a, b : StrCmp(a, b) = "lt")

\* _SqliteDict.items_page and SqliteLibrary.get_entries: the SELECT with
\* its WHERE, ORDER BY and LIMIT clauses.  SQLite reads a negative LIMIT
\* as no limit.
SqliteLibrary_get_entries(es, limit_given, limit, after, reverse) ==
    LET above(key) == StrCmp(key, after) = "gt"
        below(key) == StrCmp(key, after) = "lt"
        where ==
            IF after # <<>>
            THEN IF reverse THEN SelectSeq(LexicalKeys(es), below)
                 ELSE SelectSeq(LexicalKeys(es), above)
            ELSE LexicalKeys(es)
        ordered == IF reverse THEN Reverse(where) ELSE where
        rows == IF limit_given /\ limit # 0 /\ limit > 0
                THEN Take(ordered, limit) ELSE ordered
    IN  Listing(None,
                [i \in 1..Len(rows) |-> Sqlite_entry_from_dict(rows[i], es[rows[i]])])

\* Table.query on the entry table: the items of the library after
\* ExclusiveStartKey (<<>> for none) in sort-key order, at most Limit of
\* them (0 for no Limit) and at most one response's worth; a
\* LastEvaluatedKey when items remain.
dynamo_query(es, scan_index_forward, limit, exclusive_start_key) ==
    LET above(key) == StrCmp(key, exclusive_start_key) = "gt"
        below(key) == StrCmp(key, exclusive_start_key) = "lt"
        keys ==
            IF exclusive_start_key = <<>>
            THEN IF scan_index_forward THEN LexicalKeys(es)
                 ELSE Reverse(LexicalKeys(es))
            ELSE IF scan_index_forward THEN SelectSeq(LexicalKeys(es), above)
            ELSE Reverse(SelectSeq(LexicalKeys(es), below))
        n == IF limit = 0 THEN QueryPageItems ELSE Min(limit, QueryPageItems)
        page == Take(keys, n)
    IN  [Items |-> [i \in 1..Len(page) |-> es[page[i]]],
         LastEvaluatedKey |-> IF Len(page) < Len(keys) THEN page[Len(page)] ELSE <<>>]

\* The loop of AwsLibrary.get_entries from one ExclusiveStartKey on.
RECURSIVE aws_query_loop(_, _, _, _)
aws_query_loop(es, reverse, limit, start_key) ==
    LET results == dynamo_query(es, ~reverse, limit, start_key)
        items == results.Items
        yielded == [i \in 1..Len(items) |-> Aws_entry_from_dict(items[i])]
    IN  IF items = <<>> THEN <<>>
        ELSE IF limit # 0 THEN yielded
        ELSE IF results.LastEvaluatedKey = <<>> THEN yielded
        ELSE yielded \o aws_query_loop(es, reverse, limit, results.LastEvaluatedKey)

\* AwsLibrary.get_entries: Limit and ExclusiveStartKey are passed when
\* limit and after are truthy; boto3 rejects a Limit below 1 when the
\* generator is first advanced.
AwsLibrary_get_entries(es, limit_given, limit, after, reverse) ==
    IF limit_given /\ limit < 0 THEN Listing("ParamValidationError", <<>>)
    ELSE Listing(None,
                 aws_query_loop(es, reverse,
                                IF limit_given THEN limit ELSE 0, after))

get_entries(b, es, order, limit_given, limit, after, reverse) ==
    CASE b = "filesystem" ->
             FileSystemLibrary_get_entries(es, order, limit_given, limit, after, reverse)
      [] b = "sqlite" -> SqliteLibrary_get_entries(es, limit_given, limit, after, reverse)
      [] b = "aws" -> AwsLibrary_get_entries(es, limit_given, limit, after, reverse)

\* A caller that pages through the library: get_entries(limit=k), then
\* get_entries(limit=k, after=<id of the last entry returned>) until a
\* page comes back empty.  fuel bounds the number of pages.
RECURSIVE walk_pages(_, _, _, _, _, _, _)
walk_pages(b, es, order, k, after, reverse, fuel) ==
    LET page == get_entries(b, es, order, TRUE, k, after, reverse)
    IN  IF page.error # None THEN Listing(page.error, <<>>)
        ELSE IF page.entries = <<>> \/ fuel = 0 THEN Listing(None, <<>>)
        ELSE LET rest == walk_pages(b, es, order, k,
                                    page.entries[Len(page.entries)].entry_id,
                                    reverse, fuel - 1)
             IN  Listing(rest.error, page.entries \o rest.entries)

----------------------------------------------------------------------------
(* The entry operations of one library                                     *)

Backends == {"filesystem", "sqlite", "aws"}

Idle == [op |-> "idle"]

\* A new, empty library of one of the backends; no blob operation runs.
Init ==
    /\ backend \in Backends
    /\ glob_order \in (IF backend = "filesystem" THEN {"asc", "desc"} ELSE {"asc"})
    /\ entries = <<>>
    /\ last = Idle
    /\ blobs = <<>>
    /\ blob_writes = <<>>
    /\ blast = [op |-> "init"]
    /\ thread_pool_size = 1
    /\ entry_ingestions = <<>>
    /\ requests = <<>>
    /\ posts = <<>>
    /\ callers = <<>>
    /\ dl = NoDownload
    /\ dl_status = NoDownload

\* library.put_entry(entry)
PutEntry ==
    \E entry \in EntryValues :
        LET store == put_entry(backend, entries, entry)
        IN  /\ last = Idle
            /\ Cardinality(DOMAIN store) <= MaxEntries
            /\ entries' = store
            /\ last' = [op |-> "put_entry", entry |-> entry,
                        before |-> get_entry(backend, entries, entry.entry_id),
                        before_store |-> entries]
            /\ UNCHANGED <<backend, glob_order>>
            /\ UNCHANGED blob_vars
            /\ UNCHANGED ingest_vars
            /\ UNCHANGED <<call_vars, download_vars>>

\* library.get_entry(entry_id) and library.entry_exists(entry_id)
GetEntry ==
    \E entry_id \in EntryIds :
        /\ last = Idle
        /\ last' = [op |-> "get_entry", entry_id |-> entry_id,
                    result |-> get_entry(backend, entries, entry_id),
                    exists |-> entry_exists(backend, entries, entry_id)]
        /\ UNCHANGED <<backend, glob_order, entries>>
        /\ UNCHANGED blob_vars
        /\ UNCHANGED ingest_vars
        /\ UNCHANGED <<call_vars, download_vars>>

\* library.delete_entry(entry_id)
DeleteEntry ==
    \E entry_id \in EntryIds :
        LET r == delete_entry(backend, entries, entry_id)
        IN  /\ last = Idle
            /\ entries' = r.store
            /\ last' = [op |-> "delete_entry", entry_id |-> entry_id,
                        error |-> r.error,
                        before |-> get_entry(backend, entries, entry_id),
                        before_store |-> entries]
            /\ UNCHANGED <<backend, glob_order>>
            /\ UNCHANGED blob_vars
            /\ UNCHANGED ingest_vars
            /\ UNCHANGED <<call_vars, download_vars>>

\* list(library.get_entries(limit, after, reverse)); limit_given tells a
\* limit that was passed from the default None.
GetEntries ==
    \E limit_given \in BOOLEAN, after \in EntryIds \cup {<<>>}, reverse \in BOOLEAN :
        \E limit \in (IF limit_given THEN -1..MaxLimit ELSE {0}) :
            /\ last = Idle
            /\ last' = [op |-> "get_entries", limit_given |-> limit_given,
                        limit |-> limit, after |-> after, reverse |-> reverse,
                        result |-> get_entries(backend, entries, glob_order,
                                               limit_given, limit, after, reverse)]
            /\ UNCHANGED <<backend, glob_order, entries>>
            /\ UNCHANGED blob_vars
            /\ UNCHANGED ingest_vars
            /\ UNCHANGED <<call_vars, download_vars>>

\* A caller pages through the whole library, k entries a page.
WalkPages ==
    \E k \in 1..MaxLimit, reverse \in BOOLEAN :
        /\ last = Idle
        /\ last' = [op |-> "walk", limit |-> k, reverse |-> reverse,
                    result |-> walk_pages(backend, entries, glob_order, k, <<>>,
                                          reverse, Cardinality(DOMAIN entries) + 1)]
        /\ UNCHANGED <<backend, glob_order, entries>>
        /\ UNCHANGED blob_vars
        /\ UNCHANGED ingest_vars
        /\ UNCHANGED <<call_vars, download_vars>>

\* The caller is done with what the last call returned.
Return ==
    /\ last # Idle
    /\ last' = Idle
    /\ UNCHANGED <<backend, glob_order, entries>>
    /\ UNCHANGED blob_vars
    /\ UNCHANGED ingest_vars
    /\ UNCHANGED <<call_vars, download_vars>>

Next == PutEntry \/ GetEntry \/ DeleteEntry \/ GetEntries \/ WalkPages \/ Return

Spec == Init /\ [][Next]_vars

----------------------------------------------------------------------------
(* Library.create_entry                                                    *)

\* Longest content_sequence passed to create_entry.
MaxContents == 2

\* The contents that create_entry is called with: a content the caller
\* holds and a downloaded one, of different bodies.
EntryContents == {PlainContent("image/jpeg", <<1>>), read_content("image/jpeg", <<1, 0>>)}

\* The ids that create_entry is called with.
CreatedEntryIds == {<<"e", "1">>, <<"e", "2">>}

ContentSequences == UNION {[1..n -> EntryContents] : n \in 1..MaxContents}

\* [self.create_blob(content) for content in content_sequence]: the blobs
\* are created from left to right, each on the store the one before left.
RECURSIVE create_blobs(_, _)
create_blobs(store, content_sequence) ==
    IF content_sequence = <<>> THEN [store |-> store, blob_sequence |-> <<>>]
    ELSE LET created == create_blob(store, Head(content_sequence))
             rest == create_blobs(created.store, Tail(content_sequence))
         IN  [store |-> rest.store,
              blob_sequence |-> <<created.blob_id>> \o rest.blob_sequence]

\* create_entry that stores an entry of the blobs made so far when a
\* create_blob raises.
create_entry_keeps_partial(b, store, es, entry_id, entry_metadata, content_sequence, fail_at) ==
    LET n == IF fail_at = 0 THEN Len(content_sequence) ELSE fail_at - 1
        created == create_blobs(store, SubSeq(content_sequence, 1, n))
        entry == Entry(entry_id, entry_metadata, created.blob_sequence)
    IN  [store |-> created.store, entries |-> put_entry(b, es, entry),
         raised |-> fail_at # 0,
         result |-> IF fail_at = 0 THEN <<entry>> ELSE <<>>]

\* Library.create_entry on the Blobs folder `store` and the entry store
\* `es`.  fail_at = k > 0 makes the k-th create_blob raise before it
\* writes: the list comprehension stops there and the exception leaves
\* create_entry; with fail_at = 0 every create_blob returns.
create_entry(b, store, es, entry_id, entry_metadata, content_sequence, fail_at) ==
    IF fail_at # 0
    THEN [store |-> create_blobs(store, SubSeq(content_sequence, 1, fail_at - 1)).store,
          entries |-> es, raised |-> TRUE, result |-> <<>>]
    ELSE LET created == create_blobs(store, content_sequence)
             entry == Entry(entry_id, entry_metadata, created.blob_sequence)
         IN  [store |-> created.store, entries |-> put_entry(b, es, entry),
              raised |-> FALSE, result |-> <<entry>>]

\* library.create_entry(entry_id, entry_metadata, content_sequence)
CreateEntry ==
    \E entry_id \in CreatedEntryIds, content_sequence \in ContentSequences,
       entry_metadata \in {p.metadata : p \in Payloads} :
        \E fail_at \in 0..Len(content_sequence) :
            LET r == create_entry(backend, blobs, entries, entry_id, entry_metadata,
                                  content_sequence, fail_at)
            IN  /\ last = Idle
                /\ blobs' = r.store
                /\ entries' = r.entries
                /\ last' = [op |-> "create_entry", entry_id |-> entry_id,
                            entry_metadata |-> entry_metadata,
                            content_sequence |-> content_sequence,
                            fail_at |-> fail_at, raised |-> r.raised,
                            result |-> r.result,
                            before_blobs |-> blobs, before_store |-> entries]
                /\ UNCHANGED <<blob_writes, blast, backend, glob_order>>
                /\ UNCHANGED ingest_vars
                /\ UNCHANGED <<call_vars, download_vars>>

\* library.get_blob(blob_id) and library.blob_exists(blob_id) on the
\* library that create_entry fills.
ProbeBlob ==
    \E blob_id \in BlobIds :
        /\ last = Idle
        /\ last' = [op |-> "get_blob", blob_id |-> blob_id,
                    result |-> get_blob(blobs, blob_id),
                    exists |-> blob_exists(blobs, blob_id)]
        /\ UNCHANGED <<backend, glob_order, entries>>
        /\ UNCHANGED blob_vars
        /\ UNCHANGED ingest_vars
        /\ UNCHANGED <<call_vars, download_vars>>

CreateEntryNext == CreateEntry \/ GetEntry \/ ProbeBlob \/ Return

CreateEntrySpec == Init /\ [][CreateEntryNext]_vars

----------------------------------------------------------------------------
(* The intake: _Ingestor.put_entry_with_url_content on a thread pool       *)

\* Most put_entry_with_url_content calls the intake dispatches.
MaxRequests == 2

\* Most download inputs of one request.
MaxDownloads == 2

\* A pool as roomy as the intake's default of 100 threads: every request
\* and every download of the model gets a thread at once.
default_thread_pool_size == MaxRequests * (MaxDownloads + 1)

\* The pool sizes intake_application is started with.
ThreadPoolSizes == {1, 2, default_thread_pool_size}

\* ConflictResolution
ConflictResolution == {"Skip", "Replace", "ReplaceIfMore"}

\* The entry ids ingestions are requested for.
IngestEntryIds == {<<"e", "1">>, <<"e", "2">>}

\* The one library of the SBS2 the intake serves.
library_id == "lib"

\* A url is named by a number; the body its download yields is the
\* number's binary digits, so different urls yield different bytes.
RECURSIVE ResponseBody(_)
ResponseBody(url) ==
    IF url = 0 THEN <<>> ELSE <<url % 2>> \o ResponseBody(url \div 2)

\* download(url) and dl.read_content(...): the DownloadedContent of every
\* url a request of the model can name.
DownloadedContentByUrl ==
    [url \in 1..MaxDownloads |-> read_content("image/jpeg", ResponseBody(url))]

DownloadedContentOf(url) == DownloadedContentByUrl[url]

\* The entry_metadata every request of the model carries.
RequestMetadata == [attributes |-> {}, tags |-> {1}]

\* _DownloadStatus(url): state 'Initialized'
_DownloadStatus(url) == [url |-> url, state |-> "Initialized"]

\* _EntryIngestion(library_id, entry_id): state 'Working', no downloads
_EntryIngestion(lib, entry_id) ==
    [library_id |-> lib, entry_id |-> entry_id, state |-> "Working",
     downloads |-> <<>>]

\* The None that download_and_create_blob returns for a failed download
\* (line 155) and that a task holds until it returns: the empty tuple, so
\* that it compares with a blob id.
NoBlob == <<>>

\* A download_and_create_blob task of thread_pool.map, not yet started.
QueuedTask == [pc |-> "queued", slot |-> 0, blob |-> NoBlob]

\* The tasks and the requests that hold a pool thread.
RunningRequests(reqs) ==
    {r \in DOMAIN reqs : reqs[r].pc \notin {"queued", "done"}}

RunningTasks(reqs) ==
    {<<r, i>> \in (DOMAIN reqs) \X (1..MaxDownloads + 1) :
        i \in DOMAIN reqs[r].tasks /\ reqs[r].tasks[i].pc \notin {"queued", "done"}}

Busy(reqs) == Cardinality(RunningRequests(reqs)) + Cardinality(RunningTasks(reqs))

\* The intake is started on a new, empty FileSystemLibrary.
IngestInit ==
    /\ backend = "filesystem"
    /\ glob_order = "asc"
    /\ entries = <<>>
    /\ blobs = <<>>
    /\ blob_writes = <<>>
    /\ blast = [op |-> "init"]
    /\ last = Idle
    /\ thread_pool_size \in ThreadPoolSizes
    /\ entry_ingestions = <<>>
    /\ requests = <<>>
    /\ posts = <<>>
    /\ callers = <<>>
    /\ dl = NoDownload
    /\ dl_status = NoDownload

\* abort(abort_response_status, message) of sbs2.webapps raises HTTPError
\* with that status; called without its message it raises TypeError, which
\* leaves the handler as an unhandled exception (status 500).
abort(abort_response_status, with_message) ==
    IF with_message THEN [raised |-> "HTTPError", status |-> abort_response_status]
    ELSE [raised |-> "TypeError", status |-> 500]

\* What a POST body can be: well-formed, naming a library that sbs2 does
\* not know, or lacking a field the handler reads.
PostKinds == {"well_formed", "unknown_library", "missing_field"}

\* intake_entry, lines 214-238: how the try block ends for a body of that
\* kind.  get_library_or_abort raises HTTPError(400), which is re-raised;
\* any other exception reaches abort(AbortResponseStatus.BadRequest).
intake_entry_parse(kind) ==
    CASE kind = "well_formed" -> [raised |-> None, status |-> 201]
      [] kind = "unknown_library" -> abort(400, TRUE)
      [] kind = "missing_field" -> abort(400, FALSE)

\* intake_entry: a well-formed POST dispatches put_entry_with_url_content
\* to the pool with apply_async and is answered 201.  The first request is
\* for 'e1' (which id is requested first makes no difference to the
\* intake).
intake_entry ==
    \E entry_id \in (IF requests = <<>> THEN {<<"e", "1">>} ELSE IngestEntryIds),
       n \in 1..MaxDownloads,
       conflict_resolution \in ConflictResolution :
        /\ Len(posts) < MaxRequests
        /\ requests' = Append(requests,
               [entry_id |-> entry_id,
                entry_metadata |-> RequestMetadata,
                download_inputs |-> [i \in 1..n |-> i],
                conflict_resolution |-> conflict_resolution,
                pc |-> "queued", ingestion |-> 0, tasks |-> <<>>,
                put_called |-> FALSE, outcome |-> "none", result |-> <<>>])
        /\ posts' = Append(posts,
               [kind |-> "well_formed", request |-> Len(requests) + 1,
                raised |-> intake_entry_parse("well_formed").raised,
                status |-> intake_entry_parse("well_formed").status])
        /\ UNCHANGED <<thread_pool_size, entry_ingestions>>
        /\ UNCHANGED <<call_vars, download_vars>>
        /\ UNCHANGED <<blob_vars, entry_vars>>

\* intake_entry for a body that makes the try block raise: nothing is
\* dispatched.
intake_entry_raises ==
    \E kind \in PostKinds \ {"well_formed"} :
        /\ Len(posts) < MaxRequests
        /\ posts' = Append(posts,
               [kind |-> kind, request |-> 0,
                raised |-> intake_entry_parse(kind).raised,
                status |-> intake_entry_parse(kind).status])
        /\ UNCHANGED <<thread_pool_size, entry_ingestions, requests>>
        /\ UNCHANGED <<call_vars, download_vars>>
        /\ UNCHANGED <<blob_vars, entry_vars>>

\* A request ends: put_entry_with_url_content returns.
Returned(req, outcome, result) ==
    [req EXCEPT !.pc = "done", !.outcome = outcome, !.result = result]

\* The request starts without the look for a Working record.
CheckWorking_none(r) ==
    /\ requests[r].pc = "queued"
    /\ Busy(requests) < thread_pool_size
    /\ requests' = [requests EXCEPT ![r].pc = "policy"]
    /\ UNCHANGED <<thread_pool_size, entry_ingestions>>
    /\ UNCHANGED <<posts, call_vars, download_vars>>
    /\ UNCHANGED <<blob_vars, entry_vars>>

\* Lines 111-115: a pool thread takes the request and looks for a Working
\* record of the same (library_id, entry_id).
CheckWorking(r) ==
    /\ requests[r].pc = "queued"
    /\ Busy(requests) < thread_pool_size
    /\ requests' = [requests EXCEPT ![r] =
          IF \E k \in DOMAIN entry_ingestions :
                 /\ entry_ingestions[k].library_id = library_id
                 /\ entry_ingestions[k].entry_id = @.entry_id
                 /\ entry_ingestions[k].state = "Working"
          THEN Returned(@, "declined_working", <<>>)
          ELSE [@ EXCEPT !.pc = "policy"]]
    /\ UNCHANGED <<thread_pool_size, entry_ingestions>>
    /\ UNCHANGED <<posts, call_vars, download_vars>>
    /\ UNCHANGED <<blob_vars, entry_vars>>

\* The conflict policy without its Skip branch.
conflict_declines_skip_ignored(conflict_resolution, b, es, entry_id, n) ==
    /\ conflict_resolution = "ReplaceIfMore"
    /\ get_entry(b, es, entry_id) # <<>>
    /\ Len(get_entry(b, es, entry_id)[1].blob_sequence) >= n

\* The conflict policy with ReplaceIfMore declining only for more blobs.
conflict_declines_only_more(conflict_resolution, b, es, entry_id, n) ==
    IF conflict_resolution = "Skip" THEN entry_exists(b, es, entry_id)
    ELSE /\ conflict_resolution = "ReplaceIfMore"
         /\ get_entry(b, es, entry_id) # <<>>
         /\ Len(get_entry(b, es, entry_id)[1].blob_sequence) > n

\* A conflict policy that declines for any existing entry.
conflict_declines_any_existing(conflict_resolution, b, es, entry_id, n) ==
    entry_exists(b, es, entry_id)

\* Lines 117-126: the conflict policy against the entry the library holds.
conflict_declines(conflict_resolution, b, es, entry_id, n) ==
    IF conflict_resolution = "Skip" /\ entry_exists(b, es, entry_id) THEN TRUE
    ELSE IF conflict_resolution = "ReplaceIfMore"
    THEN LET existing_entry == get_entry(b, es, entry_id)
         IN  existing_entry # <<>> /\ Len(existing_entry[1].blob_sequence) >= n
    ELSE FALSE

CheckPolicy(r) ==
    /\ requests[r].pc = "policy"
    /\ requests' = [requests EXCEPT ![r] =
          IF conflict_declines(@.conflict_resolution, backend, entries,
                               @.entry_id, Len(@.download_inputs))
          THEN Returned(@, "declined_conflict", <<>>)
          ELSE [@ EXCEPT !.pc = "accepted"]]
    /\ UNCHANGED <<thread_pool_size, entry_ingestions>>
    /\ UNCHANGED <<posts, call_vars, download_vars>>
    /\ UNCHANGED <<blob_vars, entry_vars>>

\* An accepted request that appends its record twice.
AppendIngestion_twice(r) ==
    /\ requests[r].pc = "accepted"
    /\ entry_ingestions' =
          Append(Append(entry_ingestions, _EntryIngestion(library_id, requests[r].entry_id)),
                 _EntryIngestion(library_id, requests[r].entry_id))
    /\ requests' = [requests EXCEPT ![r] =
          [@ EXCEPT !.pc = "map", !.ingestion = Len(entry_ingestions) + 1,
                    !.tasks = [i \in DOMAIN requests[r].download_inputs |-> QueuedTask]]]
    /\ UNCHANGED thread_pool_size
    /\ UNCHANGED <<posts, call_vars, download_vars>>
    /\ UNCHANGED <<blob_vars, entry_vars>>

\* Lines 130-131 and 157: the record is appended and thread_pool.map
\* queues one download_and_create_blob task per download input.
AppendIngestion(r) ==
    /\ requests[r].pc = "accepted"
    /\ entry_ingestions' = Append(entry_ingestions,
                                  _EntryIngestion(library_id, requests[r].entry_id))
    /\ requests' = [requests EXCEPT ![r] =
          [@ EXCEPT !.pc = "map", !.ingestion = Len(entry_ingestions) + 1,
                    !.tasks = [i \in DOMAIN requests[r].download_inputs |-> QueuedTask]]]
    /\ UNCHANGED thread_pool_size
    /\ UNCHANGED <<posts, call_vars, download_vars>>
    /\ UNCHANGED <<blob_vars, entry_vars>>

\* The _DownloadStatus of task i of request r, and its replacement.
StatusOf(ings, reqs, r, i) ==
    ings[reqs[r].ingestion].downloads[reqs[r].tasks[i].slot]

SetDownloadState(ings, reqs, r, i, state) ==
    [ings EXCEPT ![reqs[r].ingestion].downloads[reqs[r].tasks[i].slot].state = state]

SetTask(reqs, r, i, pc, blob) ==
    [reqs EXCEPT ![r].tasks[i].pc = pc, ![r].tasks[i].blob = blob]

\* Lines 135-137: a pool thread takes the task, makes its _DownloadStatus
\* and appends it to ingestion.downloads.
TaskStart(r, i) ==
    /\ requests[r].pc = "map"
    /\ requests[r].tasks[i].pc = "queued"
    /\ Busy(requests) < thread_pool_size
    /\ entry_ingestions' = [entry_ingestions EXCEPT ![requests[r].ingestion].downloads =
                               Append(@, _DownloadStatus(requests[r].download_inputs[i]))]
    /\ requests' = [requests EXCEPT
          ![r].tasks[i].pc = "init",
          ![r].tasks[i].slot = Len(entry_ingestions[requests[r].ingestion].downloads) + 1]
    /\ UNCHANGED thread_pool_size
    /\ UNCHANGED <<posts, call_vars, download_vars>>
    /\ UNCHANGED <<blob_vars, entry_vars>>

\* The exception handler of the task without line 154: only the status
\* becomes 'Failed'.
TaskFails_status_only(r, i) ==
    /\ entry_ingestions' = SetDownloadState(entry_ingestions, requests, r, i, "Failed")
    /\ requests' = SetTask(requests, r, i, "done", NoBlob)

\* Lines 151-155: an exception of the task is caught; the status becomes
\* 'Failed', ingestion.state becomes 'Failed' and the task returns None.
TaskFails(r, i) ==
    /\ entry_ingestions' =
          [SetDownloadState(entry_ingestions, requests, r, i, "Failed")
               EXCEPT ![requests[r].ingestion].state = "Failed"]
    /\ requests' = SetTask(requests, r, i, "done", NoBlob)

\* A step of download_and_create_blob that may raise: on success the
\* status moves to state `next`.
TaskStep(r, i, pc, next, ok) ==
    /\ requests[r].tasks[i].pc = pc
    /\ IF ok
       THEN /\ entry_ingestions' = SetDownloadState(entry_ingestions, requests, r, i, next)
            /\ requests' = SetTask(requests, r, i, next, NoBlob)
       ELSE TaskFails(r, i)
    /\ UNCHANGED thread_pool_size
    /\ UNCHANGED <<posts, call_vars, download_vars>>
    /\ UNCHANGED <<blob_vars, entry_vars>>

\* A task that goes from 'Initialized' to 'Writing' at once.
TaskDownload_skipping(r, i) ==
    \E ok \in BOOLEAN : TaskStep(r, i, "init", "Writing", ok)

\* Lines 139-143: download(url) answers and the state becomes 'Downloading'.
TaskDownload(r, i) ==
    \E ok \in BOOLEAN : TaskStep(r, i, "init", "Downloading", ok)

\* Lines 144-145: read_content reads the body; the state becomes 'Writing'.
TaskReadContent(r, i) ==
    \E ok \in BOOLEAN : TaskStep(r, i, "Downloading", "Writing", ok)

\* Lines 146-150: library.create_blob stores the content, the state
\* becomes 'Success' and the task returns the blob.
TaskCreateBlob(r, i) ==
    /\ requests[r].tasks[i].pc = "Writing"
    /\ LET created == create_blob(blobs, DownloadedContentOf(requests[r].download_inputs[i]))
       IN  /\ entry_ingestions' = SetDownloadState(entry_ingestions, requests, r, i, "Success")
           /\ requests' = SetTask(requests, r, i, "done", created.blob_id)
           /\ blobs' = created.store
           /\ blob_writes' = IF created.wrote THEN CountWrite(blob_writes, created.blob_id)
                             ELSE blob_writes
    /\ UNCHANGED <<blast, thread_pool_size>>
    /\ UNCHANGED <<posts, call_vars, download_vars>>
    /\ UNCHANGED entry_vars

\* Lines 146, 151-155: library.create_blob raises.
TaskCreateBlobFails(r, i) ==
    /\ requests[r].tasks[i].pc = "Writing"
    /\ TaskFails(r, i)
    /\ UNCHANGED thread_pool_size
    /\ UNCHANGED <<posts, call_vars, download_vars>>
    /\ UNCHANGED <<blob_vars, entry_vars>>

\* thread_pool.map returns and the request goes on whatever the record's
\* state.
MapReturns_unchecked(r) ==
    /\ requests[r].pc = "map"
    /\ \A i \in DOMAIN requests[r].tasks : requests[r].tasks[i].pc = "done"
    /\ requests' = [requests EXCEPT ![r].pc = "put"]
    /\ UNCHANGED <<thread_pool_size, entry_ingestions>>
    /\ UNCHANGED <<posts, call_vars, download_vars>>
    /\ UNCHANGED <<blob_vars, entry_vars>>

\* Lines 157-161: thread_pool.map returns once every task has returned;
\* the request gives up unless the record is still 'Working'.
MapReturns(r) ==
    /\ requests[r].pc = "map"
    /\ \A i \in DOMAIN requests[r].tasks : requests[r].tasks[i].pc = "done"
    /\ requests' = [requests EXCEPT ![r] =
          IF entry_ingestions[@.ingestion].state # "Working"
          THEN Returned(@, "failed", <<>>)
          ELSE [@ EXCEPT !.pc = "put"]]
    /\ UNCHANGED <<thread_pool_size, entry_ingestions>>
    /\ UNCHANGED <<posts, call_vars, download_vars>>
    /\ UNCHANGED <<blob_vars, entry_vars>>

\* Line 163: the entry of the blobs the tasks returned, in map's order.
IsBlob(blob) == blob # NoBlob

\* An entry of the blobs in the order the tasks were started in, which is
\* the order of ingestion.downloads.
BuiltEntry_start_order(req) ==
    Entry(req.entry_id, req.entry_metadata,
          SelectSeq([k \in DOMAIN req.tasks |->
                        req.tasks[CHOOSE i \in DOMAIN req.tasks : req.tasks[i].slot = k].blob],
                    IsBlob))

BuiltEntry(req) ==
    Entry(req.entry_id, req.entry_metadata,
          SelectSeq([i \in DOMAIN req.tasks |-> req.tasks[i].blob], IsBlob))

\* Line 164: library.put_entry(entry) stores the entry.
PutBuiltEntry(r) ==
    /\ requests[r].pc = "put"
    /\ entries' = put_entry(backend, entries, BuiltEntry(requests[r]))
    /\ requests' = [requests EXCEPT ![r].pc = "stored", ![r].put_called = TRUE]
    /\ UNCHANGED <<backend, glob_order, last>>
    /\ UNCHANGED <<thread_pool_size, entry_ingestions>>
    /\ UNCHANGED <<posts, call_vars, download_vars>>
    /\ UNCHANGED blob_vars

\* library.put_entry raises and nothing catches it: the exception leaves
\* put_entry_with_url_content and the record stays as it is.
PutBuiltEntryFails_uncaught(r) ==
    /\ requests[r].pc = "put"
    /\ requests' = [requests EXCEPT ![r] =
          Returned([@ EXCEPT !.put_called = TRUE], "raised", <<>>)]
    /\ UNCHANGED <<thread_pool_size, entry_ingestions>>
    /\ UNCHANGED <<posts, call_vars, download_vars>>
    /\ UNCHANGED <<blob_vars, entry_vars>>

\* Lines 164, 170-173: library.put_entry raises; the handler sets the
\* record to 'Failed' and the request returns None.
PutBuiltEntryFails(r) ==
    /\ requests[r].pc = "put"
    /\ entry_ingestions' = [entry_ingestions EXCEPT ![requests[r].ingestion].state = "Failed"]
    /\ requests' = [requests EXCEPT ![r] =
          Returned([@ EXCEPT !.put_called = TRUE], "failed", <<>>)]
    /\ UNCHANGED thread_pool_size
    /\ UNCHANGED <<posts, call_vars, download_vars>>
    /\ UNCHANGED <<blob_vars, entry_vars>>

\* Lines 167-168: the record becomes 'Success' and the entry is returned.
IngestionSucceeds(r) ==
    /\ requests[r].pc = "stored"
    /\ entry_ingestions' = [entry_ingestions EXCEPT ![requests[r].ingestion].state = "Success"]
    /\ requests' = [requests EXCEPT ![r] =
          Returned(@, "success", <<BuiltEntry(@)>>)]
    /\ UNCHANGED thread_pool_size
    /\ UNCHANGED <<posts, call_vars, download_vars>>
    /\ UNCHANGED <<blob_vars, entry_vars>>

\* The steps of put_entry_with_url_content, for some request.
RequestCheckWorking == \E r \in DOMAIN requests : CheckWorking(r)
RequestCheckPolicy == \E r \in DOMAIN requests : CheckPolicy(r)
RequestAppendIngestion == \E r \in DOMAIN requests : AppendIngestion(r)
RequestMapReturns == \E r \in DOMAIN requests : MapReturns(r)
RequestPutEntry == \E r \in DOMAIN requests : PutBuiltEntry(r)
RequestPutEntryFails == \E r \in DOMAIN requests : PutBuiltEntryFails(r)
RequestSucceeds == \E r \in DOMAIN requests : IngestionSucceeds(r)

\* The steps of download_and_create_blob, for some task of some request.
DownloadStart ==
    \E r \in DOMAIN requests : \E i \in DOMAIN requests[r].tasks : TaskStart(r, i)
DownloadFetch ==
    \E r \in DOMAIN requests : \E i \in DOMAIN requests[r].tasks : TaskDownload(r, i)
DownloadRead ==
    \E r \in DOMAIN requests : \E i \in DOMAIN requests[r].tasks : TaskReadContent(r, i)
DownloadCreateBlob ==
    \E r \in DOMAIN requests : \E i \in DOMAIN requests[r].tasks : TaskCreateBlob(r, i)
DownloadCreateBlobFails ==
    \E r \in DOMAIN requests : \E i \in DOMAIN requests[r].tasks : TaskCreateBlobFails(r, i)

IngestNext ==
    \/ intake_entry
    \/ intake_entry_raises
    \/ RequestCheckWorking
    \/ RequestCheckPolicy
    \/ RequestAppendIngestion
    \/ RequestMapReturns
    \/ RequestPutEntry
    \/ RequestPutEntryFails
    \/ RequestSucceeds
    \/ DownloadStart
    \/ DownloadFetch
    \/ DownloadRead
    \/ DownloadCreateBlob
    \/ DownloadCreateBlobFails

IngestSpec == IngestInit /\ [][IngestNext]_vars

\* The steps that the threads of the pool take: everything but the
\* arrival of a POST.
PoolStep ==
    \/ RequestCheckWorking
    \/ RequestCheckPolicy
    \/ RequestAppendIngestion
    \/ RequestMapReturns
    \/ RequestPutEntry
    \/ RequestPutEntryFails
    \/ RequestSucceeds
    \/ DownloadStart
    \/ DownloadFetch
    \/ DownloadRead
    \/ DownloadCreateBlob
    \/ DownloadCreateBlobFails

\* The intake with threads that go on: every fetch and every write of the
\* backend ends, and a pool thread that can take a step takes one.
IngestLiveSpec == IngestInit /\ [][IngestNext]_vars /\ WF_vars(PoolStep)

----------------------------------------------------------------------------
(* One download with its byte counters: download, read_content,            *)
(* create_blob and the _DownloadStatus that follows them                   *)

\* download(), lines 86-89: int(response.headers.get('content-length', 0)).
\* The header is <<>> when the response has none and <<n>> otherwise.
header_content_length(header) == IF header = <<>> THEN 0 ELSE header[1]

\* _DownloadStatus(url) with the defaults of all its fields.
DownloadStatusFields(url) ==
    [url |-> url, content_length |-> 0, downloaded_bytes |-> 0,
     written_bytes |-> 0, state |-> "Initialized"]

\* round(n / d) of Python for n >= 0 and d > 0: to the nearest integer, a
\* half to the even one.
round_half_even(n, d) ==
    LET q == n \div d
        rest == n % d
    IN  IF 2 * rest < d THEN q
        ELSE IF 2 * rest > d THEN q + 1
        ELSE IF q % 2 = 0 THEN q ELSE q + 1

\* What a property returns: a value, or the exception it raised.
Returns(value) == [error |-> None, value |-> value]
Raises(error) == [error |-> error, value |-> 0]

\* percent_complete with a test of the content length for zero.
percent_complete_zero_guarded(status) ==
    IF status.state \in {"Downloading", "Writing"} /\ status.content_length # 0
    THEN Returns(round_half_even(
             (IF status.state = "Downloading" THEN status.downloaded_bytes
              ELSE status.written_bytes) * 100,
             status.content_length))
    ELSE Returns(100)

\* _DownloadStatus.percent_complete.  The numerator is None outside the
\* states 'Downloading' and 'Writing'; content_length is an int in every
\* _DownloadStatus (0 by default, int(...) in download), never None, so
\* the division runs whenever the numerator is set, and a content length
\* of 0 raises ZeroDivisionError.
percent_complete(status) ==
    IF status.state \in {"Downloading", "Writing"}
    THEN IF status.content_length = 0 THEN Raises("ZeroDivisionError")
         ELSE Returns(round_half_even(
                  (IF status.state = "Downloading" THEN status.downloaded_bytes
                   ELSE status.written_bytes) * 100,
                  status.content_length))
    ELSE Returns(100)

\* Content.get_length: the bytes of the body are counted, one buffer of
\* _copy at a time.
RECURSIVE Content_get_length(_)
Content_get_length(bufs) ==
    IF bufs = <<>> THEN 0 ELSE Len(Head(bufs)) + Content_get_length(Tail(bufs))

\* DownloadedContent.get_length: the content length of the headers.
DownloadedContent_get_length(headers) == headers.content_length

\* get_length of a content: DownloadedContent overrides Content.get_length.
get_length(content, headers) ==
    IF content.kind = "prehashed" THEN DownloadedContent_get_length(headers)
    ELSE Content_get_length(_copy(content.body, default_chunk_size))

\* The response of the server: a body, its type, and a Content-Length
\* header that is absent or tells the length of the body.
DownloadInit ==
    /\ \E body \in Bodies, content_type \in MimeTypes :
          \E header \in {<<>>, <<Len(body)>>} :
              dl = [pc |-> "start", body |-> body, content_type |-> content_type,
                    content_length_header |-> header, headers |-> <<>>,
                    bufs |-> <<>>, content |-> <<>>, blob |-> None]
    /\ dl_status = DownloadStatusFields(1)
    /\ blobs = <<>>
    /\ blob_writes = <<>>
    /\ blast = [op |-> "init"]
    /\ backend = "filesystem"
    /\ glob_order = "asc"
    /\ entries = <<>>
    /\ last = [op |-> "idle"]
    /\ thread_pool_size = 1
    /\ entry_ingestions = <<>>
    /\ requests = <<>>
    /\ posts = <<>>
    /\ callers = <<>>

\* intake.py lines 138-143: download(url) answers with the headers; the
\* status takes their content length and becomes 'Downloading'.
DownloadAnswers ==
    /\ dl.pc = "start"
    /\ LET headers == [content_type |-> dl.content_type,
                       content_length |-> header_content_length(dl.content_length_header)]
       IN  /\ dl' = [dl EXCEPT !.pc = "read", !.headers = <<headers>>,
                               !.bufs = _copy(dl.body, default_chunk_size)]
           /\ dl_status' = [dl_status EXCEPT !.content_length = headers.content_length,
                                             !.state = "Downloading"]
    /\ UNCHANGED <<blob_vars, entry_vars, ingest_vars, call_vars>>

\* read_content, one round of _copy: a buffer of the body is read and
\* increment_bytes_downloaded is called with its length.
DownloadReadsBuffer ==
    /\ dl.pc = "read"
    /\ dl.bufs # <<>>
    /\ dl' = [dl EXCEPT !.bufs = Tail(@)]
    /\ dl_status' = [dl_status EXCEPT !.downloaded_bytes = @ + Len(Head(dl.bufs))]
    /\ UNCHANGED <<blob_vars, entry_vars, ingest_vars, call_vars>>

\* intake.py lines 144-145: read_content returns the DownloadedContent and
\* the status becomes 'Writing'.
DownloadReadReturns ==
    /\ dl.pc = "read"
    /\ dl.bufs = <<>>
    /\ dl' = [dl EXCEPT !.pc = "write",
                        !.content = <<read_content(dl.content_type, dl.body)>>,
                        !.bufs = _copy(dl.body, default_chunk_size)]
    /\ dl_status' = [dl_status EXCEPT !.state = "Writing"]
    /\ UNCHANGED <<blob_vars, entry_vars, ingest_vars, call_vars>>

\* create_blob, one round of the copy of _write_blob_content: a buffer is
\* written and increment_bytes_written is called with its length.
DownloadWritesBuffer ==
    /\ dl.pc = "write"
    /\ dl.bufs # <<>>
    /\ dl' = [dl EXCEPT !.bufs = Tail(@)]
    /\ dl_status' = [dl_status EXCEPT !.written_bytes = @ + Len(Head(dl.bufs))]
    /\ UNCHANGED <<blob_vars, entry_vars, ingest_vars, call_vars>>

\* intake.py lines 146-150: create_blob returns the blob and the status
\* becomes 'Success'.
DownloadCreatesBlob ==
    /\ dl.pc = "write"
    /\ dl.bufs = <<>>
    /\ LET created == create_blob(blobs, dl.content[1])
       IN  /\ blobs' = created.store
           /\ blob_writes' = IF created.wrote THEN CountWrite(blob_writes, created.blob_id)
                             ELSE blob_writes
           /\ dl' = [dl EXCEPT !.pc = "done", !.blob = created.blob_id]
    /\ dl_status' = [dl_status EXCEPT !.state = "Success"]
    /\ UNCHANGED <<blast, entry_vars, ingest_vars, call_vars>>

\* intake.py lines 151-155: the download, the read or the write raises and
\* the status becomes 'Failed'.
DownloadRaises ==
    /\ dl.pc \in {"start", "read", "write"}
    /\ dl' = [dl EXCEPT !.pc = "done"]
    /\ dl_status' = [dl_status EXCEPT !.state = "Failed"]
    /\ UNCHANGED <<blob_vars, entry_vars, ingest_vars, call_vars>>

DownloadNext ==
    \/ DownloadAnswers
    \/ DownloadReadsBuffer
    \/ DownloadReadReturns
    \/ DownloadWritesBuffer
    \/ DownloadCreatesBlob
    \/ DownloadRaises

DownloadSpec == DownloadInit /\ [][DownloadNext]_vars

----------------------------------------------------------------------------
(* Properties of the blob store                                            *)

\* The SHA-1 of a whole byte string, hashed in one piece.
Sha1Of(body) == hexdigest(hasher_update(sha1, body))

\* A step that is a create_blob call (a call that leaves every variable
\* as it was changes nothing, and is covered by that).
IsCreateBlobStep == blast' # blast /\ blast'.op = "create_blob"

\* C1 (dedup idempotence): a create_blob whose computed blob id is already
\* stored returns the existing blob, without calling _write_blob_content and
\* without invoking the write callback, and leaves the blob store as it
\* was; a create_blob of the content of the call before it returns the
\* same blob id and writes nothing; every stored blob was written by
\* exactly one _write_blob_content call.
C1_DedupIdempotence ==
    /\ [](\A blob_id \in DOMAIN blobs :
            blob_id \in DOMAIN blob_writes /\ blob_writes[blob_id] = 1)
    /\ [][IsCreateBlobStep =>
            /\ blob_exists(blobs, compute_blob_id(blast'.content)) =>
                  /\ blast'.blob_id = compute_blob_id(blast'.content)
                  /\ ~blast'.wrote
                  /\ blast'.callbacks = 0
                  /\ blobs' = blobs
                  /\ blob_writes' = blob_writes
            /\ (blast.op = "create_blob" /\ blast.content = blast'.content) =>
                  /\ blast'.blob_id = blast.blob_id
                  /\ ~blast'.wrote
                  /\ blast'.callbacks = 0
                  /\ blobs' = blobs
                  /\ blob_writes' = blob_writes]_vars

\* C1 witness: a second create_blob of a content of more than one buffer
\* found the blob the first call wrote.
C1_Witness ==
    /\ blast.op = "create_blob"
    /\ blast.existed
    /\ Len(blast.content.body) > default_chunk_size
    /\ blast.blob_id \in DOMAIN blobs
    /\ blob_writes[blast.blob_id] = 1

\* C2 (blob id determinism): the blob id create_blob computes is the SHA-1
\* of the content bytes followed by the extension guessed from the MIME
\* type ('' when none is guessed, '.jpg' for '.jpe'), for a streamed and
\* for a prehashed content; any content with the same bytes and the same
\* guessed extension has the same blob id, and the stored file holds the
\* bytes.
C2_BlobIdDeterminism ==
    blast.op = "create_blob" =>
        LET c == blast.content
            ext == guess_extension(c.type)
        IN  /\ blast.blob_id[1] = Sha1Of(c.body)
            /\ blast.blob_id[2] = (IF ext = None THEN ""
                                   ELSE IF ext = ".jpe" THEN ".jpg" ELSE ext)
            /\ \A d \in Contents :
                  (d.body = c.body /\ guess_extension(d.type) = ext)
                      => compute_blob_id(d) = blast.blob_id
            /\ \A d \in Contents :
                  compute_blob_id(d) = blast.blob_id => d.body = c.body
            /\ blobs[blast.blob_id] = c.body

\* C2 witness: a prehashed content of more than one buffer and a MIME type
\* guessed as '.jpe' got a '.jpg' blob id.
C2_Witness ==
    /\ blast.op = "create_blob"
    /\ blast.content.kind = "prehashed"
    /\ Len(blast.content.body) > default_chunk_size
    /\ guess_extension(blast.content.type) = ".jpe"
    /\ blast.blob_id = <<Sha1Of(blast.content.body), ".jpg">>

----------------------------------------------------------------------------
(* Properties of the entry store                                           *)

\* The Entry a store holds under one of its keys, as the backend reads it.
StoredEntry(b, es, key) ==
    CASE b = "filesystem" -> _load_entry(es[key])
      [] b = "sqlite" -> Sqlite_entry_from_dict(key, es[key])
      [] b = "aws" -> Aws_entry_from_dict(es[key])

StoredEntries(b, es) == {StoredEntry(b, es, key) : key \in DOMAIN es}

\* The order of two entry ids under the backend's comparator.
EntryIdCmp(b, x, y) ==
    IF b = "filesystem" THEN KeyCmp(entry_id_sort_key(x), entry_id_sort_key(y))
    ELSE StrCmp(x, y)

\* get_entries() with no limit and no cursor, on the current store.
FullListing(reverse) ==
    get_entries(backend, entries, glob_order, FALSE, 0, <<>>, reverse)

\* C3 (CRUD round trip): after put_entry(e), get_entry(e.entry_id) returns
\* a value equal to e and entry_exists(e.entry_id) is true; after
\* delete_entry(id), get_entry(id) returns None and entry_exists(id) is
\* false.
C3_CrudRoundTrip ==
    /\ last.op = "put_entry" =>
          /\ get_entry(backend, entries, last.entry.entry_id) = <<last.entry>>
          /\ entry_exists(backend, entries, last.entry.entry_id)
    /\ last.op = "delete_entry" =>
          /\ get_entry(backend, entries, last.entry_id) = <<>>
          /\ ~entry_exists(backend, entries, last.entry_id)

\* C3 witness: an entry with two tags and two blobs was put and then
\* deleted.
C3_Witness ==
    /\ last.op = "delete_entry"
    /\ last.error = None
    /\ last.before # <<>>
    /\ last.before[1].entry_id = last.entry_id
    /\ Cardinality(last.before[1].metadata.tags) = 2
    /\ Len(last.before[1].blob_sequence) = 2

\* C4 (put_entry replaces in full): a put_entry(e2) onto an id that
\* get_entry already found an entry for leaves get_entry returning exactly
\* e2, one stored entry with that id, and as many entries as before.
C4_PutEntryFullReplace ==
    (last.op = "put_entry" /\ last.before # <<>>) =>
        /\ get_entry(backend, entries, last.entry.entry_id) = <<last.entry>>
        /\ Cardinality({key \in DOMAIN entries :
               StoredEntry(backend, entries, key).entry_id = last.entry.entry_id}) = 1
        /\ Cardinality(DOMAIN entries) = Cardinality(DOMAIN last.before_store)

\* C4 witness: the entry replaced had the same id, a tag and a blob that
\* the new entry has not.
C4_Witness ==
    /\ last.op = "put_entry"
    /\ last.before # <<>>
    /\ last.before[1].entry_id = last.entry.entry_id
    /\ last.before[1].metadata.tags \ last.entry.metadata.tags # {}
    /\ last.before[1].metadata.attributes \ last.entry.metadata.attributes # {}
    /\ Len(last.before[1].blob_sequence) > Len(last.entry.blob_sequence)

\* C5 (delete_entry is idempotent): delete_entry(id) with no entry of
\* that id stored raises no error and leaves the library unchanged.
C5_DeleteEntryIdempotent ==
    (/\ last.op = "delete_entry"
     /\ \A key \in DOMAIN last.before_store :
            StoredEntry(backend, last.before_store, key).entry_id # last.entry_id)
        => (last.error = None /\ entries = last.before_store)

InvalidArgumentErrors == {"ValueError", "ParamValidationError"}

\* C6 (limit <= 0 is rejected): get_entries with a limit that is given
\* and is 0 or negative fails with an invalid-argument error and returns
\* no entry.
C6_NonPositiveLimitRejected ==
    (last.op = "get_entries" /\ last.limit_given /\ last.limit <= 0) =>
        /\ last.result.error \in InvalidArgumentErrors
        /\ last.result.entries = <<>>

\* C7 (full listing): get_entries() with no limit and no cursor returns
\* every stored entry exactly once, in ascending order of entry_id under
\* the backend's comparator; with reverse=True it returns the reverse of
\* that sequence.
C7_FullListing ==
    (last.op = "get_entries" /\ ~last.limit_given /\ last.after = <<>>) =>
        LET listed == last.result.entries
        IN  /\ last.result.error = None
            /\ SeqToSet(listed) = StoredEntries(backend, entries)
            /\ Len(listed) = Cardinality(DOMAIN entries)
            /\ IF last.reverse
               THEN /\ FullListing(FALSE).error = None
                    /\ listed = Reverse(FullListing(FALSE).entries)
               ELSE \A i \in 1..(Len(listed) - 1) :
                       EntryIdCmp(backend, listed[i].entry_id, listed[i + 1].entry_id)
                           \in {"lt", "eq"}

\* C8 (exclusive cursor): get_entries(after=x, reverse=r) returns exactly
\* the stored entries strictly after x in direction r, in that
\* direction's order.
C8_ExclusiveCursor ==
    (last.op = "get_entries" /\ ~last.limit_given /\ last.after # <<>>) =>
        LET full == FullListing(last.reverse)
            wanted == IF last.reverse THEN "lt" ELSE "gt"
            after_x(e) == EntryIdCmp(backend, e.entry_id, last.after) = wanted
        IN  /\ last.result.error = None
            /\ full.error = None
            /\ last.result.entries = SelectSeq(full.entries, after_x)

\* C9 (limit truncation): get_entries(limit=k, after=a, reverse=r) with
\* k >= 1 is the first min(k, n) entries of get_entries(after=a,
\* reverse=r), n being the length of that unlimited result.
C9_LimitTruncation ==
    (last.op = "get_entries" /\ last.limit_given /\ last.limit >= 1) =>
        LET unlimited == get_entries(backend, entries, glob_order, FALSE, 0,
                                     last.after, last.reverse)
        IN  /\ last.result.error = unlimited.error
            /\ last.result.entries = Take(unlimited.entries, last.limit)

\* C10 (pagination continuity): paging with limit=k and after=<id of the
\* last entry returned> until a page is empty visits every stored entry
\* exactly once, in the order of the unlimited listing.
C10_PaginationContinuity ==
    (last.op = "walk" /\ FullListing(last.reverse).error = None) =>
        /\ last.result.error = None
        /\ last.result.entries = FullListing(last.reverse).entries

\* The library of backend b after put_entry of every entry of a set.
RECURSIVE LibraryHolding(_, _)
LibraryHolding(b, S) ==
    IF S = {} THEN <<>>
    ELSE LET e == CHOOSE x \in S : TRUE
         IN  put_entry(b, LibraryHolding(b, S \ {e}), e)

EntryIdsOf(listed) == [i \in 1..Len(listed) |-> listed[i].entry_id]

\* C11 (backend-independent ordering): for the same stored entries and the
\* same (limit, after, reverse), every backend returns the same sequence
\* of entry_ids from get_entries.  Stated for the calls that succeed: a
\* limit that is absent or at least 1, and no exception in either backend.
C11_BackendIndependentOrdering ==
    (/\ last.op = "get_entries"
     /\ last.limit_given => last.limit >= 1
     /\ last.result.error = None) =>
        \A b \in Backends :
            LET other == get_entries(b, LibraryHolding(b, StoredEntries(backend, entries)),
                                     glob_order, last.limit_given, last.limit,
                                     last.after, last.reverse)
            IN  (other.error = None) =>
                    EntryIdsOf(other.entries) = EntryIdsOf(last.result.entries)

\* C12 (total order): any two entry_ids the library holds are comparable
\* under the backend's ordering, and two distinct ids never compare equal.
C12_TotalOrder ==
    \A e1 \in StoredEntries(backend, entries), e2 \in StoredEntries(backend, entries) :
        /\ EntryIdCmp(backend, e1.entry_id, e2.entry_id) # "err"
        /\ (e1.entry_id # e2.entry_id) =>
               EntryIdCmp(backend, e1.entry_id, e2.entry_id) # "eq"

----------------------------------------------------------------------------
(* Properties of the intake                                                *)

\* A record of the list is Working for (library_id, entry_id).
WorkingFor(ings, entry_id) ==
    \E k \in DOMAIN ings :
        /\ ings[k].library_id = library_id
        /\ ings[k].entry_id = entry_id
        /\ ings[k].state = "Working"

\* Request r takes the step that leaves position pc.
Leaves(r, pc) == requests[r].pc = pc /\ requests'[r].pc # pc

\* Request r was declined by this step: it returned None, nothing was
\* appended to the list, no task was queued, the library is as it was.
DeclinedBy(r, outcome) ==
    /\ requests'[r].pc = "done"
    /\ requests'[r].outcome = outcome
    /\ requests'[r].result = <<>>
    /\ requests'[r].ingestion = 0
    /\ requests'[r].tasks = <<>>
    /\ entry_ingestions' = entry_ingestions
    /\ entries' = entries
    /\ blobs' = blobs

\* A declined request never has a record, a download or a put_entry.
NothingDoneFor(req) ==
    /\ req.result = <<>>
    /\ req.ingestion = 0
    /\ req.tasks = <<>>
    /\ ~req.put_called

\* C13 (no concurrent duplicate ingestion): a request evaluated while the
\* list holds a Working record for its (library_id, entry_id) is declined
\* whatever its conflict policy: it returns no entry, appends no record,
\* starts no download and leaves the library as it is.
C13_NoConcurrentDuplicate ==
    /\ [](\A r \in DOMAIN requests :
             (requests[r].outcome = "declined_working") => NothingDoneFor(requests[r]))
    /\ [][\A r \in DOMAIN requests :
             (Leaves(r, "queued") /\ WorkingFor(entry_ingestions, requests[r].entry_id))
                 => DeclinedBy(r, "declined_working")]_vars

\* C13 witness: a Replace request was declined while the record of the
\* other request for the same entry is Working.
C13_Witness ==
    \E r \in DOMAIN requests :
        /\ requests[r].conflict_resolution = "Replace"
        /\ requests[r].outcome = "declined_working"
        /\ WorkingFor(entry_ingestions, requests[r].entry_id)
        /\ Len(entry_ingestions) = 1

\* C14 (conflict policy Skip): a Skip request for an entry_id the library
\* has an entry for is declined before any record is created; a Skip
\* request that finds no Working record and no entry is accepted.
C14_SkipPolicy ==
    /\ [](\A r \in DOMAIN requests :
             (requests[r].outcome = "declined_conflict") => NothingDoneFor(requests[r]))
    /\ [][\A r \in DOMAIN requests :
             (requests[r].conflict_resolution = "Skip") =>
                 /\ (Leaves(r, "queued") /\ ~WorkingFor(entry_ingestions, requests[r].entry_id))
                        => requests'[r].pc = "policy"
                 /\ (Leaves(r, "policy") /\ entry_exists(backend, entries, requests[r].entry_id))
                        => DeclinedBy(r, "declined_conflict")
                 /\ (Leaves(r, "policy") /\ ~entry_exists(backend, entries, requests[r].entry_id))
                        => requests'[r].pc = "accepted"
                 /\ Leaves(r, "accepted")
                        => /\ requests'[r].pc = "map"
                           /\ requests'[r].ingestion = Len(entry_ingestions')
                           /\ Len(entry_ingestions') = Len(entry_ingestions) + 1]_vars

\* C14 witness: a Skip request was accepted and stored its entry, and a
\* later Skip request for the same entry was declined by the policy.
C14_Witness ==
    \E r1 \in DOMAIN requests, r2 \in DOMAIN requests :
        /\ requests[r1].conflict_resolution = "Skip"
        /\ requests[r1].outcome = "success"
        /\ requests[r2].conflict_resolution = "Skip"
        /\ requests[r2].entry_id = requests[r1].entry_id
        /\ requests[r2].outcome = "declined_conflict"
        /\ get_entry(backend, entries, requests[r1].entry_id) = requests[r1].result

\* Number of blobs of the entry the library holds under an id (0: none).
BlobCount(entry_id) ==
    LET existing_entry == get_entry(backend, entries, entry_id)
    IN  IF existing_entry = <<>> THEN 0 ELSE Len(existing_entry[1].blob_sequence)

C16_ReplaceProceeds ==
    /\ [](\A r \in DOMAIN requests :
             (requests[r].conflict_resolution = "Replace")
                 => requests[r].outcome # "declined_conflict")
    /\ [][\A r \in DOMAIN requests :
             (requests[r].conflict_resolution = "Replace") =>
                 /\ (Leaves(r, "queued") /\ ~WorkingFor(entry_ingestions, requests[r].entry_id))
                        => requests'[r].pc = "policy"
                 /\ Leaves(r, "policy") => requests'[r].pc = "accepted"
                 /\ Leaves(r, "accepted")
                        => /\ requests'[r].pc = "map"
                           /\ Len(entry_ingestions') = Len(entry_ingestions) + 1
                           /\ requests'[r].ingestion = Len(entry_ingestions')
                           /\ entry_ingestions'[Len(entry_ingestions')].state = "Working"
                           /\ requests'[r].tasks =
                                  [i \in DOMAIN requests[r].download_inputs |-> QueuedTask]]_vars

\* C16 witness: the entry had two blobs and a Replace request with one
\* download was accepted and replaced it.
C16_Witness ==
    \E r1 \in DOMAIN requests, r2 \in DOMAIN requests :
        /\ r1 # r2
        /\ requests[r1].entry_id = requests[r2].entry_id
        /\ requests[r1].outcome = "success"
        /\ Len(requests[r1].download_inputs) = 2
        /\ requests[r2].conflict_resolution = "Replace"
        /\ Len(requests[r2].download_inputs) = 1
        /\ requests[r2].outcome = "success"
        /\ BlobCount(requests[r2].entry_id) = 1

\* C16 as stated: every request submitted with policy Replace is accepted
\* (none is ever declined).
C16_ReplaceAlwaysAccepted ==
    \A r \in DOMAIN requests :
        (requests[r].conflict_resolution = "Replace")
            => requests[r].outcome \notin {"declined_working", "declined_conflict"}

\* The tasks of a request have all returned.
AllTasksDone(req) ==
    /\ req.ingestion # 0
    /\ \A i \in DOMAIN req.tasks : req.tasks[i].pc = "done"

\* Task i of a request returned None: its fetch or its persist failed.
TaskFailed(req, i) == req.tasks[i].pc = "done" /\ req.tasks[i].blob = NoBlob

TerminalDownloadStates == {"Success", "Failed"}

\* C17 (partial-failure aggregation): for an accepted ingestion of which
\* at least one download failed, once all downloads have finished the
\* record is Failed, the status of every failed download is Failed and
\* that of every other download is Success, and put_entry is never called
\* for the record.
C17_PartialFailureAggregation ==
    \A r \in DOMAIN requests :
        (/\ AllTasksDone(requests[r])
         /\ \E i \in DOMAIN requests[r].tasks : TaskFailed(requests[r], i)) =>
            /\ entry_ingestions[requests[r].ingestion].state = "Failed"
            /\ \A i \in DOMAIN requests[r].tasks :
                   StatusOf(entry_ingestions, requests, r, i).state =
                       IF TaskFailed(requests[r], i) THEN "Failed" ELSE "Success"
            /\ ~requests[r].put_called
            /\ requests[r].pc \in {"map", "done"}
            /\ requests[r].pc = "done" =>
                   (requests[r].outcome = "failed" /\ requests[r].result = <<>>)

\* C17 witness: a request of two downloads has returned; one download
\* failed and the other stored its blob.
C17_Witness ==
    \E r \in DOMAIN requests :
        /\ requests[r].pc = "done"
        /\ requests[r].outcome = "failed"
        /\ Len(requests[r].tasks) = 2
        /\ \E i, j \in DOMAIN requests[r].tasks :
              /\ TaskFailed(requests[r], i)
              /\ requests[r].tasks[j].blob # NoBlob
              /\ blob_exists(blobs, requests[r].tasks[j].blob)

\* C18 (the outcome is computed after all downloads): whenever a record
\* is Success or Failed, every one of its N downloads is already in state
\* Success or Failed.
C18_OutcomeAfterAllDownloads ==
    \A r \in DOMAIN requests :
        (/\ requests[r].ingestion # 0
         /\ entry_ingestions[requests[r].ingestion].state \in {"Success", "Failed"}) =>
            LET downloads == entry_ingestions[requests[r].ingestion].downloads
            IN  /\ Len(downloads) = Len(requests[r].download_inputs)
                /\ \A j \in DOMAIN downloads :
                       downloads[j].state \in TerminalDownloadStates

\* The records that a step appends to entry_ingestions.
NewIngestions == DOMAIN entry_ingestions' \ DOMAIN entry_ingestions

\* C19 (ingestion record state machine): every record is created in state
\* Working, no record is ever removed, and the state of a record changes
\* only from Working to Success or from Working to Failed, so that a
\* record in Success or Failed keeps its state, whatever the interleaving
\* of the download workers and the coordinators.
C19_RecordStateMachine ==
    [][/\ \A k \in DOMAIN entry_ingestions :
              /\ k \in DOMAIN entry_ingestions'
              /\ (entry_ingestions'[k].state # entry_ingestions[k].state) =>
                     /\ entry_ingestions[k].state = "Working"
                     /\ entry_ingestions'[k].state \in {"Success", "Failed"}
       /\ \A k \in NewIngestions : entry_ingestions'[k].state = "Working"]_vars

\* C19 witness: one record ended Failed after both of its downloads
\* failed, and another record ended Success.
C19_Witness ==
    \E r1, r2 \in DOMAIN requests :
        /\ requests[r1].pc = "done" /\ requests[r1].outcome = "failed"
        /\ Len(requests[r1].tasks) = 2
        /\ \A i \in DOMAIN requests[r1].tasks : TaskFailed(requests[r1], i)
        /\ entry_ingestions[requests[r1].ingestion].state = "Failed"
        /\ requests[r2].pc = "done" /\ requests[r2].outcome = "success"
        /\ entry_ingestions[requests[r2].ingestion].state = "Success"

\* The moves of one DownloadStatus.
DownloadTransitions ==
    {<<"Initialized", "Downloading">>, <<"Downloading", "Writing">>,
     <<"Writing", "Success">>,
     <<"Initialized", "Failed">>, <<"Downloading", "Failed">>, <<"Writing", "Failed">>}

\* C20 (download state machine): every DownloadStatus is appended in state
\* Initialized, none is ever removed, and its state changes only along
\* Initialized -> Downloading -> Writing -> Success or to Failed from one
\* of Initialized, Downloading, Writing; a status in Success or Failed
\* keeps its state.
C20_DownloadStateMachine ==
    [][\A k \in DOMAIN entry_ingestions :
           LET old == entry_ingestions[k].downloads
               new == entry_ingestions'[k].downloads
           IN  /\ Len(new) >= Len(old)
               /\ \A j \in DOMAIN old :
                      /\ new[j].url = old[j].url
                      /\ (new[j].state # old[j].state) =>
                             <<old[j].state, new[j].state>> \in DownloadTransitions
               /\ \A j \in DOMAIN new \ DOMAIN old : new[j].state = "Initialized"]_vars

\* C20 witness: the two downloads of one record have ended, one in
\* Success after going through every state and one in Failed.
C20_Witness ==
    \E k \in DOMAIN entry_ingestions :
        /\ Len(entry_ingestions[k].downloads) = 2
        /\ \E i, j \in DOMAIN entry_ingestions[k].downloads :
              /\ entry_ingestions[k].downloads[i].state = "Success"
              /\ entry_ingestions[k].downloads[j].state = "Failed"

\* The blobs of the requested resources of a request, in request order.
RequestedBlobs(req) ==
    [i \in DOMAIN req.download_inputs |->
        compute_blob_id(DownloadedContentOf(req.download_inputs[i]))]

\* Request r takes the step from pc `from` to pc `to`.
Moves(r, from, to) ==
    /\ r \in DOMAIN requests
    /\ requests[r].pc = from
    /\ requests'[r].pc = to

\* C21 (request-order assembly): the entry that a successful ingestion
\* persists, and the entry it returns, hold as i-th blob the blob produced
\* from the i-th requested resource, whatever order the downloads started
\* and completed in.
C21_RequestOrderAssembly ==
    [][\A r \in DOMAIN requests :
           /\ Moves(r, "put", "stored") =>
                  LET stored == get_entry(backend, entries', requests[r].entry_id)
                  IN  /\ stored # <<>>
                      /\ stored[1].blob_sequence = RequestedBlobs(requests[r])
           /\ (Moves(r, "stored", "done") /\ requests'[r].outcome = "success") =>
                  requests'[r].result[1].blob_sequence = RequestedBlobs(requests[r])]_vars

\* C21 witness: an ingestion of two resources succeeded although the task
\* of the second resource was started first.
C21_Witness ==
    \E r \in DOMAIN requests :
        /\ requests[r].outcome = "success"
        /\ Len(requests[r].tasks) = 2
        /\ requests[r].tasks[1].slot = 2
        /\ requests[r].tasks[2].slot = 1
        /\ RequestedBlobs(requests[r])[1] # RequestedBlobs(requests[r])[2]

\* The library holds, under the id of request req, an entry with the
\* requested metadata and one blob per requested resource.
LibraryHoldsRequested(es, req) ==
    LET stored == get_entry(backend, es, req.entry_id)
    IN  /\ stored # <<>>
        /\ stored[1].entry_id = req.entry_id
        /\ stored[1].metadata = req.entry_metadata
        /\ Len(stored[1].blob_sequence) = Len(req.download_inputs)

\* C22 (Success only after the entry is persisted): a record becomes
\* Success only after put_entry has been called for it, and at the moment
\* it becomes Success the library holds an entry with the requested id,
\* the requested metadata and one blob per requested resource.
C22_SuccessAfterPersist ==
    [][\A r \in DOMAIN requests :
           (/\ requests[r].ingestion # 0
            /\ entry_ingestions[requests[r].ingestion].state # "Success"
            /\ entry_ingestions'[requests[r].ingestion].state = "Success") =>
               /\ requests[r].put_called
               /\ LibraryHoldsRequested(entries', requests[r])]_vars

\* C23 (concurrent creation of the same blob): when two create_blob calls
\* for contents of the same blob id both passed the look-up of an existing
\* blob, so that both wrote the file, then once both have returned the
\* file of that blob id holds exactly the bytes of the content and both
\* calls returned that blob id.
C23_ConcurrentCreateBlob ==
    \A c1, c2 \in DOMAIN callers :
        (/\ c1 # c2
         /\ callers[c1].blob_id = callers[c2].blob_id
         /\ callers[c1].pc = "returned" /\ callers[c2].pc = "returned"
         /\ callers[c1].wrote /\ callers[c2].wrote) =>
            /\ blob_exists(blobs, callers[c1].blob_id)
            /\ blobs[callers[c1].blob_id] = callers[c1].content.body
            /\ blobs[callers[c1].blob_id] = callers[c2].content.body
            /\ callers[c1].result = callers[c1].blob_id
            /\ callers[c2].result = callers[c1].blob_id

\* C23 witness: two calls for a content of more than one buffer both wrote
\* the file of the same blob id and have returned.
C23_Witness ==
    \E c1, c2 \in DOMAIN callers :
        /\ c1 # c2
        /\ callers[c1].blob_id = callers[c2].blob_id
        /\ callers[c1].pc = "returned" /\ callers[c2].pc = "returned"
        /\ callers[c1].wrote /\ callers[c2].wrote
        /\ Len(callers[c1].content.body) > default_chunk_size
        /\ blob_writes[callers[c1].blob_id] = 2

\* C24 (percent complete): percent_complete never fails; in the states
\* Downloading and Writing it is the byte counter of that state as a
\* rounded percentage of the declared content length, or 100 when that
\* length is zero or unknown; in every other state it is 100.
C24_PercentComplete ==
    (dl_status # NoDownload) =>
        /\ percent_complete(dl_status).error = None
        /\ percent_complete(dl_status) = percent_complete_zero_guarded(dl_status)

\* C30 (content length): get_length() of a content equals the number of
\* bytes readable from its get_body(), for a DownloadedContent built from
\* a remote response as for any other Content.
C30_ContentLength ==
    (dl # NoDownload /\ dl.content # <<>>) =>
        /\ get_length(dl.content[1], dl.headers[1]) = Len(dl.content[1].body)
        /\ get_length(PlainContent(dl.content_type, dl.body), dl.headers[1]) = Len(dl.body)

\* C25 (fire-and-forget submission): a well-formed POST is dispatched to
\* the pool and answered 201 whatever becomes of the ingestion; a
\* malformed POST or one for an unknown library is answered 400, and
\* nothing is dispatched and no record created for it.
C25_FireAndForget ==
    /\ \A k \in DOMAIN posts :
          IF posts[k].kind = "well_formed"
          THEN /\ posts[k].status = 201
               /\ posts[k].request \in DOMAIN requests
          ELSE /\ posts[k].status = 400
               /\ posts[k].request = 0
    /\ Len(requests) = Cardinality({k \in DOMAIN posts : posts[k].kind = "well_formed"})
    /\ Len(entry_ingestions) <= Len(requests)

\* C26 (create_entry keeps the order and is not atomic): when create_entry
\* returns, the i-th blob of the entry returned and of the entry stored is
\* the blob of the i-th content; when create_blob raises for the k-th
\* content, the entry store is what it was before the call (no entry is
\* put, an existing one is unchanged) and the blobs of the contents
\* 1..k-1 are stored.
C26_CreateEntry ==
    (last.op = "create_entry") =>
        LET blob_of(i) == compute_blob_id(last.content_sequence[i])
        IN  IF last.fail_at = 0
            THEN /\ ~last.raised
                 /\ last.result # <<>>
                 /\ last.result[1].blob_sequence =
                        [i \in DOMAIN last.content_sequence |-> blob_of(i)]
                 /\ get_entry(backend, entries, last.entry_id) = last.result
                 /\ \A i \in DOMAIN last.content_sequence : blob_exists(blobs, blob_of(i))
            ELSE /\ last.raised
                 /\ last.result = <<>>
                 /\ entries = last.before_store
                 /\ \A i \in 1..(last.fail_at - 1) : blob_exists(blobs, blob_of(i))

\* C26 witness: create_entry for an id that has an entry raised at its
\* second content, after it had created a blob that was not stored before.
C26_Witness ==
    /\ last.op = "create_entry"
    /\ last.fail_at = 2
    /\ get_entry(backend, last.before_store, last.entry_id) # <<>>
    /\ ~blob_exists(last.before_blobs, compute_blob_id(last.content_sequence[1]))
    /\ blob_exists(blobs, compute_blob_id(last.content_sequence[1]))

\* C27 (existence checks agree with reads): in every state of a library
\* of any backend, entry_exists(id) is true exactly when get_entry(id)
\* returns an entry and blob_exists(id) exactly when get_blob(id) returns
\* a blob; a look-up, hit or miss, returns without an error and leaves
\* the entry store and the Blobs folder as they were.
C27_ExistenceAgreesWithReads ==
    /\ [](/\ \A entry_id \in EntryIds :
                entry_exists(backend, entries, entry_id) <=>
                    (get_entry(backend, entries, entry_id) # <<>>)
          /\ \A blob_id \in BlobIds :
                blob_exists(blobs, blob_id) <=> (get_blob(blobs, blob_id) # None)
          /\ (last.op = "get_entry") => (last.exists <=> (last.result # <<>>))
          /\ (last.op = "get_blob") => (last.exists <=> (last.result # None)))
    /\ [][(last' # last /\ last'.op \in {"get_entry", "get_blob"}) =>
              (entries' = entries /\ blobs' = blobs)]_vars

\* C27 witness: a look-up of an entry id hit in a library that holds a
\* blob, while another entry id and another blob id are absent.
C27_Witness ==
    /\ last.op = "get_entry"
    /\ last.exists
    /\ last.result # <<>>
    /\ \E entry_id \in EntryIds : ~entry_exists(backend, entries, entry_id)
    /\ \E blob_id \in BlobIds : blob_exists(blobs, blob_id)
    /\ \E blob_id \in BlobIds : ~blob_exists(blobs, blob_id)

\* The tasks that have written a field of the record of request req: a
\* worker task appends its status to ingestion.downloads when it starts
\* (line 137) and sets ingestion.state when it fails (line 154); the
\* coordinator sets ingestion.state at lines 167 and 172.
RecordWriters(req) ==
    {<<"worker", i>> : i \in {j \in DOMAIN req.tasks : req.tasks[j].slot # 0}}
        \cup (IF req.put_called /\ req.pc = "done" THEN {<<"coordinator", 0>>} ELSE {})

\* C28 (single-writer records): the fields of an ingestion record, its
\* state and its downloads list, are written by one task only, and every
\* DownloadStatus sits at the position its own worker task appended it at.
C28_SingleWriterRecords ==
    \A r \in DOMAIN requests :
        (requests[r].ingestion # 0) =>
            /\ Cardinality(RecordWriters(requests[r])) <= 1
            /\ \A i, j \in DOMAIN requests[r].tasks :
                   (i # j /\ requests[r].tasks[i].slot # 0) =>
                       requests[r].tasks[i].slot # requests[r].tasks[j].slot

\* put_entry was called for the request and raised.
PutEntryRaised(req) ==
    /\ req.pc = "done"
    /\ req.put_called
    /\ req.outcome # "success"

\* C29 (failure of put_entry): when every download of an accepted record
\* succeeded and put_entry raises, the record is Failed and not Success,
\* put_entry_with_url_content returns None instead of raising, and every
\* DownloadStatus of the record is still Success.
C29_PutEntryFailure ==
    \A r \in DOMAIN requests :
        PutEntryRaised(requests[r]) =>
            /\ entry_ingestions[requests[r].ingestion].state = "Failed"
            /\ requests[r].outcome = "failed"
            /\ requests[r].result = <<>>
            /\ Len(entry_ingestions[requests[r].ingestion].downloads) =
                   Len(requests[r].download_inputs)
            /\ \A i \in DOMAIN requests[r].tasks :
                   /\ requests[r].tasks[i].blob # NoBlob
                   /\ StatusOf(entry_ingestions, requests, r, i).state = "Success"

\* C29 witness: both downloads of a request succeeded, put_entry raised
\* and the request has returned.
C29_Witness ==
    \E r \in DOMAIN requests :
        /\ PutEntryRaised(requests[r])
        /\ Len(requests[r].tasks) = 2
        /\ \A i \in DOMAIN requests[r].tasks :
               StatusOf(entry_ingestions, requests, r, i).state = "Success"
        /\ ~entry_exists(backend, entries, requests[r].entry_id)

\* The requests that were accepted: each has appended its record.
AcceptedRequests == {r \in DOMAIN requests : requests[r].ingestion # 0}

\* C31 (append-only record list): the list holds exactly one record per
\* accepted request and none for a declined one; a step leaves every
\* record at its position, for the same (library_id, entry_id), and
\* appends at most one record, so the length of the list never decreases.
C31_AppendOnlyList ==
    /\ [](/\ Len(entry_ingestions) = Cardinality(AcceptedRequests)
          /\ \A r1, r2 \in AcceptedRequests :
                 (r1 # r2) => requests[r1].ingestion # requests[r2].ingestion
          /\ \A r \in AcceptedRequests :
                 /\ requests[r].ingestion \in DOMAIN entry_ingestions
                 /\ entry_ingestions[requests[r].ingestion].entry_id = requests[r].entry_id
                 /\ requests[r].outcome \notin {"declined_working", "declined_conflict"}
          /\ \A r \in DOMAIN requests :
                 (requests[r].outcome \in {"declined_working", "declined_conflict"}) =>
                     requests[r].ingestion = 0)
    /\ [][/\ Len(entry_ingestions') \in {Len(entry_ingestions), Len(entry_ingestions) + 1}
          /\ \A k \in DOMAIN entry_ingestions :
                 /\ entry_ingestions'[k].library_id = entry_ingestions[k].library_id
                 /\ entry_ingestions'[k].entry_id = entry_ingestions[k].entry_id
          /\ (Len(entry_ingestions') > Len(entry_ingestions)) =>
                 \E r \in DOMAIN requests : Moves(r, "accepted", "map")]_vars

\* C31 witness: of two requests one was declined and one accepted and
\* finished; the list holds the one record of the accepted request.
C31_Witness ==
    /\ Len(entry_ingestions) = 1
    /\ entry_ingestions[1].state \in {"Success", "Failed"}
    /\ \E r1, r2 \in DOMAIN requests :
          /\ requests[r1].ingestion = 1
          /\ requests[r1].pc = "done"
          /\ requests[r2].outcome \in {"declined_working", "declined_conflict"}

\* C32 (no two Working records for one pair): under every interleaving of
\* the requests on the pool, the list never holds two records of the same
\* (library_id, entry_id) that are both Working.
C32_NoTwoWorkingRecords ==
    \A k1, k2 \in DOMAIN entry_ingestions :
        (/\ k1 # k2
         /\ entry_ingestions[k1].library_id = entry_ingestions[k2].library_id
         /\ entry_ingestions[k1].entry_id = entry_ingestions[k2].entry_id) =>
            ~(entry_ingestions[k1].state = "Working" /\ entry_ingestions[k2].state = "Working")

\* The state of the k-th record of the list, once there is one.
RecordState(k) ==
    IF k \in DOMAIN entry_ingestions THEN entry_ingestions[k].state ELSE "absent"

\* C33 (liveness): with fetches and writes that terminate, every record
\* that is Working eventually is Success or Failed, whatever the number of
\* requests and the size of the pool.
C33_RecordsLeaveWorking ==
    \A k \in 1..MaxRequests :
        (RecordState(k) = "Working") ~> (RecordState(k) \in {"Success", "Failed"})

\* C34 (blob integrity): in every state, also while a write is going on,
\* a blob id that blob_exists reports names a file whose bytes are
\* complete, with the SHA-1 of the blob id; and the blob that a create_blob
\* call has returned is such a file.
C34_BlobIntegrity ==
    /\ \A blob_id \in BlobIds :
          blob_exists(blobs, blob_id) => Sha1Of(blobs[blob_id]) = blob_id[1]
    /\ \A c \in DOMAIN callers :
          (callers[c].pc = "returned") =>
              /\ blob_exists(blobs, callers[c].result)
              /\ blobs[callers[c].result] = callers[c].content.body

\* The entry id that the last put_entry or delete_entry was about.
WrittenEntryId == IF last.op = "put_entry" THEN last.entry.entry_id ELSE last.entry_id

\* C35 (frame of entry writes): put_entry(e) and delete_entry(x) change
\* the entry of that exact id only: for every other entry id, get_entry
\* and entry_exists return after the operation what they returned before
\* it, and the Blobs folder is left as it was.
C35_EntryWriteFrame ==
    (last.op \in {"put_entry", "delete_entry"}) =>
        /\ \A y \in EntryIds \ {WrittenEntryId} :
              /\ get_entry(backend, entries, y) = get_entry(backend, last.before_store, y)
              /\ entry_exists(backend, entries, y) = entry_exists(backend, last.before_store, y)
        /\ blobs = <<>>

\* C36 (the conflict policy at the time of the write): when the put_entry
\* of an ingestion admitted with Skip runs, no entry exists under its id;
\* when that of an ingestion admitted with ReplaceIfMore runs, the entry
\* under its id, if any, has fewer blobs than the one put.
C36_PolicyAtWrite ==
    [][\A r \in DOMAIN requests :
           Moves(r, "put", "stored") =>
               LET existing == get_entry(backend, entries, requests[r].entry_id)
               IN  /\ (requests[r].conflict_resolution = "Skip") => existing = <<>>
                   /\ (requests[r].conflict_resolution = "ReplaceIfMore" /\ existing # <<>>) =>
                          Len(existing[1].blob_sequence) <
                              Len(BuiltEntry(requests[r]).blob_sequence)]_vars

\* A download of a record for (library_id, entry_id) is in one of the
\* states Initialized, Downloading, Writing.
DownloadInProgressFor(ings, entry_id) ==
    \E k \in DOMAIN ings :
        /\ ings[k].library_id = library_id
        /\ ings[k].entry_id = entry_id
        /\ \E j \in DOMAIN ings[k].downloads :
               ings[k].downloads[j].state \notin TerminalDownloadStates

\* C37 (no overlapping work for one entry): a request does not pass the
\* look for a Working record while a download of a record for its
\* (library_id, entry_id) is still Initialized, Downloading or Writing,
\* also when another download of that record has failed already.
C37_NoOverlappingWork ==
    [][\A r \in DOMAIN requests :
           Moves(r, "queued", "policy") =>
               ~DownloadInProgressFor(entry_ingestions, requests[r].entry_id)]_vars

\* C38 (the downloads list follows the request): once all downloads of a
\* record have finished, its downloads list holds one DownloadStatus per
\* requested resource and the i-th one is that of the i-th resource.
C38_DownloadsFollowRequest ==
    \A r \in DOMAIN requests :
        AllTasksDone(requests[r]) =>
            LET downloads == entry_ingestions[requests[r].ingestion].downloads
            IN  /\ Len(downloads) = Len(requests[r].download_inputs)
                /\ \A i \in DOMAIN downloads :
                       downloads[i].url = requests[r].download_inputs[i]

\* A step in which a download of some record fails changes that download's
\* status and that record's state and nothing else: every other record,
\* the other downloads of the record, the entries and the blobs stay as
\* they are.
FailureTouchesOwnRecordOnly ==
    \A r \in DOMAIN requests : \A i \in DOMAIN requests[r].tasks :
        (/\ requests[r].tasks[i].pc \notin {"queued", "done"}
         /\ requests'[r].tasks[i].pc = "done"
         /\ requests'[r].tasks[i].blob = NoBlob) =>
            LET own == requests[r].ingestion
                slot == requests[r].tasks[i].slot
            IN  /\ DOMAIN entry_ingestions' = DOMAIN entry_ingestions
                /\ \A k \in DOMAIN entry_ingestions :
                       k # own => entry_ingestions'[k] = entry_ingestions[k]
                /\ entry_ingestions'[own].entry_id = entry_ingestions[own].entry_id
                /\ entry_ingestions'[own].state = "Failed"
                /\ DOMAIN entry_ingestions'[own].downloads =
                       DOMAIN entry_ingestions[own].downloads
                /\ \A j \in DOMAIN entry_ingestions[own].downloads :
                       IF j = slot
                       THEN entry_ingestions'[own].downloads[j].state = "Failed"
                       ELSE entry_ingestions'[own].downloads[j] =
                                entry_ingestions[own].downloads[j]
                /\ \A q \in DOMAIN requests : q # r => requests'[q] = requests[q]
                /\ UNCHANGED <<blob_vars, entry_vars>>

\* Every request that was posted is for another entry id, and all of them
\* have been posted.
DifferentEntryIds ==
    /\ Len(requests) = MaxRequests
    /\ \A q, r \in DOMAIN requests : q # r => requests[q].entry_id # requests[r].entry_id

\* C39 (failure isolation across records): a failure in a download of one
\* record changes only that download's status and that record's state, and
\* ingestions for different entry ids that run at the same time on a pool
\* on which each of them ends when run alone (two workers or more) each
\* end, as Success or Failed.
C39_IsolatedRecords ==
    /\ [][FailureTouchesOwnRecordOnly]_vars
    /\ \A k \in 1..MaxRequests :
           (thread_pool_size >= 2 /\ DifferentEntryIds /\ RecordState(k) = "Working")
               ~> (RecordState(k) \in {"Success", "Failed"})

\* A record that runs alone on a pool of two workers or more ends, unless
\* another request is posted.
AloneEnds ==
    \A k \in 1..MaxRequests :
        (thread_pool_size >= 2 /\ RecordState(k) = "Working")
            ~> (RecordState(k) \in {"Success", "Failed"} \/ Len(requests) > 1)

\* The first half of C39 on its own: it holds in every step of the intake.
FailureIsolation == [][FailureTouchesOwnRecordOnly]_vars

====
